---- MODULE Spec2Model ----
(***************************************************************************)
(* A model of the capability, permission, compaction and todo layers of    *)
(* pydantic-ai.  Each subsystem has its own variables, initial condition   *)
(* and next-state relation; a specification of one subsystem keeps the     *)
(* variables of the others at their idle values.                           *)
(***************************************************************************)
EXTENDS Integers, Sequences, FiniteSets, TLC

VARIABLES
    todos,      \* InMemoryTodoStorage._todos: todo id -> Todo (fields but the id)
    next_id,    \* InMemoryTodoStorage._next_id
    last        \* the last tool call made on the TodoToolset: its name, its
                \* outcome, and the ids whose stored todo it created, removed
                \* or changed

VARIABLES
    aliasing,   \* whether the shared TodoStorage hands out its own Todo objects
                \* (as InMemoryTodoStorage does) or copies of them
    tasks       \* the tool calls in flight on a shared storage, one per task

storageVars == <<todos, next_id>>
todoVars == <<todos, next_id, last>>
sharedVars == <<aliasing, tasks>>

VARIABLES
    perm_call,  \* the arguments of a permission evaluation: the key, the
                \* rules and the default
    perm_result \* what evaluate_permission returned and the outcome of the
                \* hook that permission_hook built

permVars == <<perm_call, perm_result>>

VARIABLES
    tool_manager,   \* a ToolManager: its before_tool_call_hooks and
                    \* after_tool_call_hooks
    call            \* one handle_call: the tool called, the arguments, the
                    \* position in the pipeline and what has run so far

hookVars == <<tool_manager, call>>

VARIABLES
    turn        \* one run step of an agent run: its number, the hook lists
                \* the first ToolManager was given, and the tool calls of the
                \* step in flight on the step's ToolManager

stepVars == <<turn>>

VARIABLES
    capabilities,   \* CombinedCapability.capabilities
    request         \* one model request passing through the combined hooks

combinedVars == <<capabilities, request>>

VARIABLES
    compaction,     \* a compaction policy object, the run context and the
                    \* message history it is called with
    compacted       \* what the call returned, and the secondary agent's calls

compactVars == <<compaction, compacted>>

VARIABLES
    toolset,    \* one TodoToolset: whether a storage was supplied
                \* (_user_storage is not None) and which storage object
                \* _storage refers to
    heap,       \* the InMemoryTodoStorage objects constructed so far
    runs        \* the agent runs that enter and exit the toolset

lifeVars == <<toolset, heap, runs>>

VARIABLES
    spec_input, \* the arguments of one call on the _spec module: a value to
                \* deserialize, the types to register, or a registry and a
                \* NamedSpec to load
    spec_output \* what the call returned or raised

specVars == <<spec_input, spec_output>>

VARIABLES
    tool_call,  \* the arguments of the last tool call on the TodoToolset and the
                \* string it returned to the model
    assigned    \* the ids InMemoryTodoStorage.create has handed out, oldest first

logVars == <<tool_call, assigned>>

VARIABLES
    fetch,      \* one call of the web fetch tool: its configuration and arguments, the
                \* answers of the name service, the URL being requested and the result
    wire        \* the HTTP requests the tool's client has sent, oldest first

fetchVars == <<fetch, wire>>

VARIABLES
    environment_toolset,\* an ExecutionEnvironmentToolset without environment_factory: its
                \* _shared_environment, _running_count, _exit_stack and _enter_lock
    environment,\* the shared ExecutionEnvironment: how often it has been entered
                \* without being closed since
    callers     \* the concurrent runs that enter and exit the toolset, each with its
                \* position in __aenter__ or __aexit__

envVars == <<environment_toolset, environment, callers>>

vars == <<todos, next_id, last, aliasing, tasks, perm_call, perm_result,
          tool_manager, call, capabilities, request, compaction, compacted,
          toolset, heap, runs, turn, spec_input, spec_output,
          tool_call, assigned,
          fetch, wire,
          environment_toolset, environment, callers>>

\* What the calls made one at a time on a TodoToolset leave alone
notTodo == <<sharedVars, permVars, hookVars, combinedVars, compactVars, lifeVars,
    stepVars, specVars, logVars, fetchVars, envVars>>
\* What the calls in flight on a shared storage leave alone
notShared == <<last, permVars, hookVars, combinedVars, compactVars, lifeVars,
    stepVars, specVars, logVars, fetchVars, envVars>>
\* What a permission evaluation leaves alone
notPerm == <<todoVars, sharedVars, hookVars, combinedVars, compactVars, lifeVars,
    stepVars, specVars, logVars, fetchVars, envVars>>
\* What a tool call through the hook pipeline leaves alone
notHooks == <<todoVars, sharedVars, permVars, combinedVars, compactVars, lifeVars,
    stepVars, specVars, logVars, fetchVars, envVars>>
\* What a model request through a CombinedCapability leaves alone
notCombined == <<todoVars, sharedVars, permVars, hookVars, compactVars, lifeVars,
    stepVars, specVars, logVars, fetchVars, envVars>>
\* What a compaction call leaves alone
notCompact == <<todoVars, sharedVars, permVars, hookVars, combinedVars, lifeVars,
    stepVars, specVars, logVars, fetchVars, envVars>>
\* What the runs entering and leaving a TodoToolset leave alone
notLife == <<todoVars, sharedVars, permVars, hookVars, combinedVars, compactVars,
    stepVars, specVars, logVars, fetchVars, envVars>>
\* What the tool calls of a run step leave alone
notSteps == <<todoVars, sharedVars, permVars, combinedVars, compactVars, lifeVars,
    specVars, logVars, fetchVars, envVars>>

\* What a call on the _spec module leaves alone
notSpec == <<todoVars, sharedVars, permVars, hookVars, combinedVars, compactVars,
    lifeVars, stepVars, logVars, fetchVars, envVars>>

(***************************************************************************)
(* Bounds                                                                  *)
(***************************************************************************)
\* ids that create_todo may hand out before the model stops creating
MaxTodos == 3
\* length of a depends_on argument
MaxDeps == 2
\* tool calls that run concurrently on a shared storage
NumTasks == 2
\* tool calls one task makes, one after another
MaxCalls == 2
\* todos a shared storage holds when the concurrent calls start
SharedTodos == 2
\* rules in a permission rule list
MaxRules == 2
\* hooks in a ToolManager's before_tool_call_hooks
MaxHooks == 3
\* hooks in a ToolManager's after_tool_call_hooks
MaxAfterHooks == 2
\* children of a CombinedCapability
MaxCaps == 3
\* messages in a history handed to a compaction policy
MaxMsgs == 5
\* largest keep_last of a compaction policy
MaxKeep == 6
\* ids handed out where every field of a todo takes several values
MaxFieldTodos == 2
\* agent runs that use one TodoToolset
NumRuns == 2
\* times the toolset is entered, all runs together
MaxScopes == 3
\* todos a run creates between an enter and the next exit
MaxScopeTodos == 2
\* run steps after the first of an agent run
MaxSteps == 2

(***************************************************************************)
(* Todo, TodoStorage (common_tools/todos.py)                               *)
(***************************************************************************)
\* Python's None where an int or a string is expected
None == 0
NoneStr == "None"
\* None where a list of ids is expected: no list of ids equals it
NoneList == <<None>>

TodoStatus == {"pending", "in_progress", "completed"}
Contents == {"c1", "c2"}
ActiveForms == {"a1", "a2"}

\* ids a caller may name: every id the storage can hold (an id the storage
\* has not assigned yet, or has deleted, is a nonexistent id)
ArgIds == 1..MaxTodos

RECURSIVE SeqsUpTo(_, _)
SeqsUpTo(S, n) ==
    IF n = 0 THEN {<<>>}
    ELSE LET shorter == SeqsUpTo(S, n - 1)
         IN shorter \cup {Append(s, x) : s \in {t \in shorter : Len(t) = n - 1}, x \in S}

DepLists == SeqsUpTo(ArgIds, MaxDeps)

Todo(content, status, active_form, depends_on) ==
    [content |-> content, status |-> status, active_form |-> active_form,
     depends_on |-> depends_on]

\* Membership in a Python list
InList(x, l) == \E i \in 1..Len(l) : l[i] = x

\* [d for d in l if d != x]
RECURSIVE ListWithout(_, _)
ListWithout(l, x) ==
    IF l = <<>> THEN <<>>
    ELSE IF Head(l) = x THEN ListWithout(Tail(l), x)
         ELSE <<Head(l)>> \o ListWithout(Tail(l), x)

\* InMemoryTodoStorage.get: the stored todo or None
StorageHas(s, todo_id) == todo_id \in DOMAIN s

\* InMemoryTodoStorage.create: a pending todo under the next id
StorageCreate(s, nid, content, active_form, depends_on) ==
    [i \in DOMAIN s \cup {nid} |->
        IF i = nid THEN Todo(content, "pending", active_form, depends_on) ELSE s[i]]

\* InMemoryTodoStorage.update: self._todos[todo.id] = todo
StorageUpdate(s, todo_id, todo) ==
    [i \in DOMAIN s \cup {todo_id} |-> IF i = todo_id THEN todo ELSE s[i]]

\* InMemoryTodoStorage.delete: self._todos.pop(todo_id, None)
StorageDelete(s, todo_id) == [i \in DOMAIN s \ {todo_id} |-> s[i]]

\* deps_map.get(current, [])
DepsOf(s, current) == IF current \in DOMAIN s THEN s[current].depends_on ELSE <<>>

\* A search that looks at each proposed dependency's own dependencies only
CycleSearchDirectOnly(s, source_id, queue, visited) ==
    \E i \in 1..Len(queue) :
        queue[i] = source_id \/ InList(source_id, DepsOf(s, queue[i]))

\* The while loop of _would_create_cycle for one dep_id: a breadth-first
\* search over deps_map from the queue, TRUE when it pops source_id.
RECURSIVE CycleSearch(_, _, _, _)
CycleSearch(s, source_id, queue, visited) ==
    IF queue = <<>> THEN FALSE
    ELSE LET current == Head(queue)
         IN IF current = source_id THEN TRUE
            ELSE IF current \in visited
                 THEN CycleSearch(s, source_id, Tail(queue), visited)
                 ELSE CycleSearch(s, source_id, Tail(queue) \o DepsOf(s, current),
                                  visited \cup {current})

\* TodoToolset._would_create_cycle: the first dep_id whose search reaches
\* source_id, or None
RECURSIVE would_create_cycle(_, _, _)
would_create_cycle(s, source_id, new_dep_ids) ==
    IF new_dep_ids = <<>> THEN None
    ELSE IF CycleSearch(s, source_id, <<Head(new_dep_ids)>>, {})
         THEN Head(new_dep_ids)
         ELSE would_create_cycle(s, source_id, Tail(new_dep_ids))

\* The validation loop of create_todo: the error of the first dep_id that
\* storage.get does not find
RECURSIVE CreateDepsError(_, _)
CreateDepsError(s, dep_ids) ==
    IF dep_ids = <<>> THEN "ok"
    ELSE IF ~StorageHas(s, Head(dep_ids)) THEN "dep_missing"
         ELSE CreateDepsError(s, Tail(dep_ids))

\* The validation loop of update_todo: self-dependency, then existence, per
\* dep_id in order
RECURSIVE UpdateDepsError(_, _, _)
UpdateDepsError(s, todo_id, dep_ids) ==
    IF dep_ids = <<>> THEN "ok"
    ELSE IF Head(dep_ids) = todo_id THEN "self_dep"
         ELSE IF ~StorageHas(s, Head(dep_ids)) THEN "dep_missing"
              ELSE UpdateDepsError(s, todo_id, Tail(dep_ids))

\* What a tool call leaves behind: its outcome and the storage
Outcome(err, s, nid) == [err |-> err, todos |-> s, next_id |-> nid]

\* create_todo(content, active_form, depends_on): depends_on None is []
create_todo_call(s, nid, content, active_form, depends_on) ==
    LET dep_ids == IF depends_on = NoneList THEN <<>> ELSE depends_on
        err == CreateDepsError(s, dep_ids)
    IN IF err # "ok" THEN Outcome(err, s, nid)
       ELSE Outcome("ok", StorageCreate(s, nid, content, active_form, dep_ids), nid + 1)

\* Field assignments that test the arguments for truth instead of for None:
\* an empty depends_on is taken as not supplied
UpdatedFieldsTruthy(todo, content, active_form, status, depends_on) ==
    [content |-> IF content # NoneStr THEN content ELSE todo.content,
     active_form |-> IF active_form # NoneStr THEN active_form ELSE todo.active_form,
     status |-> IF status # NoneStr THEN status ELSE todo.status,
     depends_on |-> IF depends_on # NoneList /\ depends_on # <<>> THEN depends_on
                    ELSE todo.depends_on]

\* The field assignments of update_todo, on the todo object that storage.get
\* returned: only the supplied fields change
UpdatedFields(todo, content, active_form, status, depends_on) ==
    [content |-> IF content # NoneStr THEN content ELSE todo.content,
     active_form |-> IF active_form # NoneStr THEN active_form ELSE todo.active_form,
     status |-> IF status # NoneStr THEN status ELSE todo.status,
     depends_on |-> IF depends_on # NoneList THEN depends_on ELSE todo.depends_on]

\* An update_todo that assigns content, active_form and status before it
\* validates depends_on
update_todo_call_eager(s, nid, todo_id, content, active_form, status, depends_on) ==
    IF ~StorageHas(s, todo_id) THEN Outcome("not_found", s, nid)
    ELSE LET early == StorageUpdate(s, todo_id,
                          UpdatedFields(s[todo_id], content, active_form, status, NoneList))
             derr == IF depends_on = NoneList THEN "ok"
                     ELSE UpdateDepsError(s, todo_id, depends_on)
         IN IF derr # "ok" THEN Outcome(derr, early, nid)
            ELSE IF depends_on # NoneList /\ would_create_cycle(s, todo_id, depends_on) # None
                 THEN Outcome("cycle", early, nid)
                 ELSE Outcome("ok",
                         StorageUpdate(s, todo_id,
                             UpdatedFields(s[todo_id], content, active_form, status, depends_on)),
                         nid)

\* update_todo(todo_id, content, active_form, status, depends_on)
update_todo_call(s, nid, todo_id, content, active_form, status, depends_on) ==
    IF ~StorageHas(s, todo_id) THEN Outcome("not_found", s, nid)
    ELSE LET derr == IF depends_on = NoneList THEN "ok"
                     ELSE UpdateDepsError(s, todo_id, depends_on)
         IN IF derr # "ok" THEN Outcome(derr, s, nid)
            ELSE IF depends_on # NoneList /\ would_create_cycle(s, todo_id, depends_on) # None
                 THEN Outcome("cycle", s, nid)
                 ELSE Outcome("ok",
                         StorageUpdate(s, todo_id,
                             UpdatedFields(s[todo_id], content, active_form, status, depends_on)),
                         nid)

\* complete_todo(todo_id)
complete_todo_call(s, nid, todo_id) ==
    IF ~StorageHas(s, todo_id) THEN Outcome("not_found", s, nid)
    ELSE Outcome("ok",
            StorageUpdate(s, todo_id, [s[todo_id] EXCEPT !.status = "completed"]), nid)

\* The cleaning loop of delete_todo over storage.list()
CleanDangling(s, todo_id) ==
    [i \in DOMAIN s |->
        IF InList(todo_id, s[i].depends_on)
        THEN [s[i] EXCEPT !.depends_on = ListWithout(s[i].depends_on, todo_id)]
        ELSE s[i]]

\* A delete_todo that removes the todo and cleans nothing
delete_todo_call_no_clean(s, nid, todo_id) ==
    IF ~StorageHas(s, todo_id) THEN Outcome("not_found", s, nid)
    ELSE Outcome("ok", StorageDelete(s, todo_id), nid)

\* delete_todo(todo_id)
delete_todo_call(s, nid, todo_id) ==
    IF ~StorageHas(s, todo_id) THEN Outcome("not_found", s, nid)
    ELSE Outcome("ok", CleanDangling(StorageDelete(s, todo_id), todo_id), nid)

(***************************************************************************)
(* Permission evaluation (_permissions.py)                                 *)
(***************************************************************************)
\* A string is the sequence of its characters
Str1(a) == <<a>>
Str2(a, b) == <<a, b>>
Str3(a, b, c) == <<a, b, c>>

\* ToolPermission
ALLOW == "allow"
DENY == "deny"
ASK == "ask"
ToolPermission == {ALLOW, DENY, ASK}

\* The characters of the keys and patterns, in the order of their code points
Alphabet ==
    <<" ", "!", "(", ")", "*", "-", ".", "/", "?", "A", "B", "[", "\\", "]", "_",
      "a", "b", "c", "d", "e", "f", "g", "h", "i", "l", "m", "r", "s", "t", "u">>
\* ord(c)
Ord(c) == CHOOSE i \in 1..Len(Alphabet) : Alphabet[i] = c

\* os.path.normcase(s): the string itself on POSIX; lower case and '\' for
\* '/' on Windows
normcase(s) ==
    IF perm_call.os_name = "nt"
    THEN [i \in 1..Len(s) |->
             IF s[i] = "A" THEN "a" ELSE IF s[i] = "B" THEN "b"
             ELSE IF s[i] = "/" THEN "\\" ELSE s[i]]
    ELSE s

\* For a pattern that starts with '[': the place of the ']' that closes the
\* class, a ']' right after '[' or '[!' being a member; 0 when none closes it
ClassEnd(pat) ==
    LET n == Len(pat)
        j1 == IF 2 <= n /\ pat[2] = "!" THEN 3 ELSE 2
        j2 == IF j1 <= n /\ pat[j1] = "]" THEN j1 + 1 ELSE j1
        closing == {k \in j2..n : pat[k] = "]"}
    IN IF closing = {} THEN 0 ELSE CHOOSE k \in closing : \A l \in closing : k <= l

\* Whether the character is one the class [stuff] stands for: the characters
\* listed and those of the ranges x-y, or, after '!', every other character
InClass(c, stuff) ==
    LET negated == stuff[1] = "!"
        body == IF negated THEN Tail(stuff) ELSE stuff
        hyphen(i) == body[i] = "-" /\ 1 < i /\ i < Len(body)
        listed == \E i \in 1..Len(body) : body[i] = c /\ ~hyphen(i)
        ranged == \E i \in 2..(Len(body) - 1) :
                      hyphen(i) /\ Ord(body[i - 1]) <= Ord(c) /\ Ord(c) <= Ord(body[i + 1])
    IN (listed \/ ranged) # negated

\* fnmatch.fnmatchcase(name, pat): '*' matches any run of characters, '?' one
\* character, '[...]' one character of the class, any other character
\* itself, and the whole name has to match
RECURSIVE fnmatchcase(_, _)
fnmatchcase(name, pat) ==
    IF pat = <<>> THEN name = <<>>
    ELSE IF Head(pat) = "*"
         THEN \/ fnmatchcase(name, Tail(pat))
              \/ name # <<>> /\ fnmatchcase(Tail(name), pat)
         ELSE IF Head(pat) = "?"
              THEN name # <<>> /\ fnmatchcase(Tail(name), Tail(pat))
              ELSE IF Head(pat) = "[" /\ ClassEnd(pat) # 0
                   THEN /\ name # <<>>
                        /\ InClass(Head(name), SubSeq(pat, 2, ClassEnd(pat) - 1))
                        /\ fnmatchcase(Tail(name), SubSeq(pat, ClassEnd(pat) + 1, Len(pat)))
                   ELSE name # <<>> /\ Head(name) = Head(pat)
                        /\ fnmatchcase(Tail(name), Tail(pat))

\* fnmatch.fnmatch(name, pat): both are normalized with os.path.normcase,
\* then matched
fnmatch(name, pat) == fnmatchcase(normcase(name), normcase(pat))

PermissionRule(pattern, decision) == [pattern |-> pattern, decision |-> decision]

\* An evaluation in which a later matching rule replaces an earlier one
RECURSIVE evaluate_permission_last_match(_, _, _)
evaluate_permission_last_match(permission_key, rules, default) ==
    IF rules = <<>> THEN default
    ELSE evaluate_permission_last_match(permission_key, Tail(rules),
            IF fnmatch(permission_key, Head(rules).pattern)
            THEN Head(rules).decision ELSE default)

\* evaluate_permission(permission_key, rules, default=...): the loop over
\* the rules returns at the first match
RECURSIVE evaluate_permission(_, _, _)
evaluate_permission(permission_key, rules, default) ==
    IF rules = <<>> THEN default
    ELSE IF fnmatch(permission_key, Head(rules).pattern)
         THEN Head(rules).decision
         ELSE evaluate_permission(permission_key, Tail(rules), default)

\* The default parameter of evaluate_permission and permission_hook: ASK
\* when the caller gives none
DefaultOr(default) == IF default = NoneStr THEN ASK ELSE default

\* A hook that treats a call needing approval as a denied call
permission_hook_ask_denies(permission_key, rules, default) ==
    LET decision == evaluate_permission(permission_key, rules, default)
    IN IF decision = DENY \/ decision = ASK THEN "ToolCallDenied" ELSE NoneStr

\* The _hook that permission_hook(rules, key_func, default) returns, called
\* on a tool call whose key_func(tool_def, tool_args) is permission_key: what
\* it raises, or None when it returns None
permission_hook(permission_key, rules, default) ==
    LET decision == evaluate_permission(permission_key, rules, default)
    IN IF decision = DENY THEN "ToolCallDenied"
       ELSE IF decision = ASK THEN "ApprovalRequired"
            ELSE NoneStr

\* The permission keys and the glob patterns of the rules
Keys == {<<>>, Str1("a"), Str1("b"), Str2("a", "b"), Str2("b", "a"), Str3("a", "b", "a")}
Patterns == {Str1("*"), Str1("a"), Str2("a", "*"), Str1("?"), Str2("*", "a"), Str2("a", "b")}

PermissionRules == {PermissionRule(pt, dc) : pt \in Patterns, dc \in ToolPermission}
RuleLists == SeqsUpTo(PermissionRules, MaxRules)

NoPermResult == [decision |-> NoneStr]

\* A caller about to evaluate a key against a rule list, with a default or
\* with none
InitPerm ==
    /\ perm_call \in [key : Keys, rules : RuleLists, default : ToolPermission \cup {NoneStr},
                      os_name : {"posix", "nt"}]
    /\ perm_result = NoPermResult

IdlePerm ==
    /\ perm_call = [key |-> <<>>, rules |-> <<>>, default |-> NoneStr, os_name |-> "posix"]
    /\ perm_result = NoPermResult

\* evaluate_permission(key, rules) or evaluate_permission(key, rules, default=d)
EvaluatePermission ==
    /\ perm_result.decision = NoneStr
    /\ perm_result' = [perm_result EXCEPT !.decision =
          evaluate_permission(perm_call.key, perm_call.rules, DefaultOr(perm_call.default))]
    /\ UNCHANGED <<perm_call, notPerm>>

NextPerm ==
    \/ EvaluatePermission

\* The rules of a list that match a key, by index
Matching(key, rules) == {i \in 1..Len(rules) : fnmatch(key, rules[i].pattern)}

Min(S) == CHOOSE x \in S : \A y \in S : x <= y

\* C4: evaluate_permission returns the decision of the lowest-index rule
\* whose pattern matches the key, whatever later rules say, and the default
\* when no rule matches (so for an empty rule list); the default is ASK when
\* none is given.
C4_FirstMatchWins ==
    perm_result.decision # NoneStr =>
        LET m == Matching(perm_call.key, perm_call.rules)
        IN IF m # {}
           THEN perm_result.decision = perm_call.rules[Min(m)].decision
           ELSE perm_result.decision =
                    (IF perm_call.default = NoneStr THEN ASK ELSE perm_call.default)

\* C4's case: two rules match the key and disagree, and the first one won
C4_Witness ==
    /\ perm_result.decision # NoneStr
    /\ Len(perm_call.rules) = 2
    /\ Matching(perm_call.key, perm_call.rules) = {1, 2}
    /\ perm_call.rules[1].pattern # perm_call.rules[2].pattern
    /\ perm_call.rules[1].decision = DENY
    /\ perm_call.rules[2].decision = ALLOW
    /\ perm_result.decision = DENY

(***************************************************************************)
(* The tool-call hook pipeline: ToolManager.handle_call with before and    *)
(* after hooks.  Permission hooks are the _hook of _permissions.py.        *)
(***************************************************************************)
\* Tool names, as permission keys
ToolNames == {Str1("a"), Str1("b")}

\* default_permission_key(tool_def, tool_args): the tool's name
default_permission_key(tool_name, tool_args) == tool_name

\* A key function that looks at the arguments, as a shell tool's would
custom_permission_key(tool_name, tool_args) ==
    Append(tool_name, IF tool_args = 1 THEN "a" ELSE "b")

KeyOf(key_func, tool_name, tool_args) ==
    IF key_func = "default" THEN default_permission_key(tool_name, tool_args)
    ELSE custom_permission_key(tool_name, tool_args)

BeforeHook(kind, rules, default, key_func) ==
    [kind |-> kind, rules |-> rules, default |-> default, key_func |-> key_func]

\* Before-hooks that return None, return replacement arguments or raise
PlainBeforeHooks ==
    {BeforeHook(k, <<>>, NoneStr, "default") : k \in {"none", "inc", "deny", "ask"}}

\* The pattern of the rules written for a key function: the tool's name for
\* the default one, any tool with argument form "a" for the custom one
PatternFor(key_func) == IF key_func = "default" THEN Str1("a") ELSE Str2("?", "a")

\* Hooks built by permission_hook(rules, key_func=..., default=...): no rule
\* or one rule, with the default left out, and one with an explicit default
PermissionHooks ==
    UNION {{BeforeHook("permission", <<>>, NoneStr, key_func),
            BeforeHook("permission", <<PermissionRule(PatternFor(key_func), DENY)>>,
                       ALLOW, key_func)}
           \cup {BeforeHook("permission", <<PermissionRule(PatternFor(key_func), dc)>>,
                             NoneStr, key_func) : dc \in ToolPermission} :
           key_func \in {"default", "custom"}}

BeforeHooks == PlainBeforeHooks \cup PermissionHooks

\* After-hooks that return a transformed result
AfterHooks == {"inc", "double"}

\* What a before-hook does with (tool_def, tool_args): the exception it
\* raises or None, and the replacement arguments it returns or None
BeforeHookOutcome(hook, tool_name, tool_args) ==
    IF hook.kind = "permission"
    THEN [raises |-> permission_hook(KeyOf(hook.key_func, tool_name, tool_args),
                                     hook.rules, DefaultOr(hook.default)),
          returns |-> None]
    ELSE IF hook.kind = "deny" THEN [raises |-> "ToolCallDenied", returns |-> None]
    ELSE IF hook.kind = "ask" THEN [raises |-> "ApprovalRequired", returns |-> None]
    ELSE IF hook.kind = "inc" THEN [raises |-> NoneStr, returns |-> tool_args + 1]
    ELSE [raises |-> NoneStr, returns |-> None]

AfterHookResult(hook, result) == IF hook = "inc" THEN result + 1 ELSE result * 2

\* The tool: add(a, b), of the one number the arguments stand for
ToolResult(tool_args) == tool_args + 10

NoRun ==
    [pc |-> "before", i |-> 1, args |-> 0, result |-> None, raised |-> NoneStr,
     raised_by |-> 0, before_log |-> <<>>, tool_log |-> <<>>, after_log |-> <<>>]

\* A ToolManager with its hooks, and a tool call about to be handled
InitHooks ==
    /\ tool_manager \in [before_tool_call_hooks : SeqsUpTo(BeforeHooks, MaxHooks),
                         after_tool_call_hooks : SeqsUpTo(AfterHooks, MaxAfterHooks)]
    /\ \E tool_name \in ToolNames, tool_args \in {1, 2} :
          call = [tool_name |-> tool_name, tool_args |-> tool_args,
                  run |-> [NoRun EXCEPT !.args = tool_args]]

IdleHooks ==
    /\ tool_manager = [before_tool_call_hooks |-> <<>>, after_tool_call_hooks |-> <<>>]
    /\ call = [tool_name |-> <<>>, tool_args |-> 0, run |-> NoRun]

\* A pipeline step in which a hook's exception is swallowed and the next
\* hook runs
RunNextBeforeHookSwallow(run, hooks, tool_name) ==
    LET out == BeforeHookOutcome(hooks[run.i], tool_name, run.args)
    IN [run EXCEPT !.i = run.i + 1,
                   !.before_log = Append(@, [hook |-> run.i, args |-> run.args]),
                   !.raised = out.raises,
                   !.raised_by = IF out.raises # NoneStr THEN run.i ELSE @,
                   !.args = IF out.returns # None THEN out.returns ELSE @]

\* A before-hook step that hands every hook the arguments of the call as the
\* model wrote them
RunNextBeforeHookUnchained(run, hooks, tool_name) ==
    LET original == IF run.before_log = <<>> THEN run.args ELSE run.before_log[1].args
        out == BeforeHookOutcome(hooks[run.i], tool_name, original)
        logged == [run EXCEPT !.before_log = Append(@, [hook |-> run.i, args |-> original])]
    IN IF out.raises # NoneStr
       THEN [logged EXCEPT !.pc = "raised", !.raised = out.raises, !.raised_by = run.i]
       ELSE [logged EXCEPT !.i = run.i + 1,
                           !.args = IF out.returns # None THEN out.returns ELSE @]

\* One before-hook of handle_call: the next hook in registration order is
\* awaited with the current arguments; its exception leaves handle_call, its
\* replacement arguments become the current ones
RunNextBeforeHook(run, hooks, tool_name) ==
    LET out == BeforeHookOutcome(hooks[run.i], tool_name, run.args)
        logged == [run EXCEPT !.before_log = Append(@, [hook |-> run.i, args |-> run.args])]
    IN IF out.raises # NoneStr
       THEN [logged EXCEPT !.pc = "raised", !.raised = out.raises, !.raised_by = run.i]
       ELSE [logged EXCEPT !.i = run.i + 1,
                           !.args = IF out.returns # None THEN out.returns ELSE @]

before_hook ==
    /\ call.run.pc = "before"
    /\ call.run.i <= Len(tool_manager.before_tool_call_hooks)
    /\ call' = [call EXCEPT !.run =
                   RunNextBeforeHook(call.run, tool_manager.before_tool_call_hooks,
                                     call.tool_name)]
    /\ UNCHANGED <<tool_manager, notHooks>>

\* The tool runs with the final arguments once every before-hook has returned
invoke_tool ==
    /\ call.run.pc = "before"
    /\ call.run.i > Len(tool_manager.before_tool_call_hooks)
    /\ call' = [call EXCEPT !.run =
                   [call.run EXCEPT !.pc = "after", !.i = 1,
                                    !.result = ToolResult(call.run.args),
                                    !.tool_log = Append(@, call.run.args)]]
    /\ UNCHANGED <<tool_manager, notHooks>>

\* One after-hook: the next in registration order gets the tool definition,
\* the final arguments and the current result, and returns the next result
after_hook ==
    /\ call.run.pc = "after"
    /\ call.run.i <= Len(tool_manager.after_tool_call_hooks)
    /\ call' = [call EXCEPT !.run =
                   [call.run EXCEPT !.i = @ + 1,
                        !.result = AfterHookResult(tool_manager.after_tool_call_hooks[call.run.i], @),
                        !.after_log = Append(@, [hook |-> call.run.i, args |-> call.run.args,
                                                 result |-> call.run.result])]]
    /\ UNCHANGED <<tool_manager, notHooks>>

\* handle_call returns the last result
return_result ==
    /\ call.run.pc = "after"
    /\ call.run.i > Len(tool_manager.after_tool_call_hooks)
    /\ call' = [call EXCEPT !.run = [call.run EXCEPT !.pc = "returned"]]
    /\ UNCHANGED <<tool_manager, notHooks>>

NextHooks ==
    \/ before_hook
    \/ invoke_tool
    \/ after_hook
    \/ return_result

\* C3: if a before-hook signals ToolCallDenied or ApprovalRequired, no later
\* before-hook runs, the tool is not invoked, no after-hook runs and the
\* signal leaves handle_call; the hooks registered before the signalling one
\* have each run exactly once, in registration order.
C3_SignalAbortsPipeline ==
    call.run.raised # NoneStr =>
        /\ call.run.pc = "raised"
        /\ call.run.raised \in {"ToolCallDenied", "ApprovalRequired"}
        /\ Len(call.run.before_log) = call.run.raised_by
        /\ \A j \in 1..Len(call.run.before_log) : call.run.before_log[j].hook = j
        /\ call.run.tool_log = <<>>
        /\ call.run.after_log = <<>>

\* The second of three before-hooks signals, with after-hooks registered
C3_Witness ==
    /\ call.run.raised # NoneStr
    /\ call.run.raised_by = 2
    /\ Len(tool_manager.before_tool_call_hooks) = 3
    /\ Len(tool_manager.after_tool_call_hooks) > 0

\* The arguments handed on by the j-th before-hook that ran
ArgsAfter(run, j) ==
    IF j < Len(run.before_log) THEN run.before_log[j + 1].args ELSE run.args

\* The first-match decision of a permission hook for a call
HookDecision(hook, tool_name, tool_args) ==
    LET key == KeyOf(hook.key_func, tool_name, tool_args)
        m == Matching(key, hook.rules)
    IN IF m # {} THEN hook.rules[Min(m)].decision
       ELSE IF hook.default = NoneStr THEN ASK ELSE hook.default

\* C5: a permission hook evaluates key_func(tool_def, args) against its rules
\* and has three outcomes: ALLOW returns None, so the arguments go on
\* unmodified; DENY raises ToolCallDenied; ASK, also as the default when no
\* rule matches, raises ApprovalRequired.  After DENY and ASK the tool is
\* never executed.
C5_PermissionHookOutcomes ==
    \A j \in 1..Len(call.run.before_log) :
        LET entry == call.run.before_log[j]
            hook == tool_manager.before_tool_call_hooks[entry.hook]
            decision == HookDecision(hook, call.tool_name, entry.args)
            raised_here == call.run.raised_by = entry.hook
        IN hook.kind = "permission" =>
              /\ decision = ALLOW =>
                    ~raised_here /\ ArgsAfter(call.run, j) = entry.args
              /\ decision = DENY =>
                    /\ raised_here /\ call.run.raised = "ToolCallDenied"
                    /\ call.run.pc = "raised" /\ call.run.tool_log = <<>>
              /\ decision = ASK =>
                    /\ raised_here /\ call.run.raised = "ApprovalRequired"
                    /\ call.run.pc = "raised" /\ call.run.tool_log = <<>>

\* A permission hook with a custom key function and a rule that does not
\* match falls back to the default ASK and raises ApprovalRequired, after an
\* earlier permission hook allowed the call
C5_Witness ==
    /\ Len(call.run.before_log) = 2
    /\ LET h1 == tool_manager.before_tool_call_hooks[1]
           h2 == tool_manager.before_tool_call_hooks[2]
       IN /\ h1.kind = "permission" /\ h1.rules # <<>>
          /\ HookDecision(h1, call.tool_name, call.run.before_log[1].args) = ALLOW
          /\ h2.kind = "permission" /\ h2.key_func = "custom"
          /\ h2.rules # <<>> /\ h2.default = NoneStr
    /\ call.run.raised = "ApprovalRequired"
    /\ call.run.raised_by = 2

(***************************************************************************)
(* The tool calls of a run step: ToolManager.for_run_step, and handle_call *)
(* for the calls that the model requested in one turn.                     *)
(***************************************************************************)
\* The model requests two tool calls in a turn
Calls == {"first", "second"}

\* for_run_step that builds the next manager without the hook lists
for_run_step_bare(tm) ==
    [before_tool_call_hooks |-> <<>>, after_tool_call_hooks |-> <<>>]

\* tm.for_run_step(ctx): the manager of the next run step, with the hook
\* lists of tm
for_run_step(tm) ==
    [before_tool_call_hooks |-> tm.before_tool_call_hooks,
     after_tool_call_hooks |-> tm.after_tool_call_hooks]

\* The tool runs with the current arguments
InvokeTool(run) ==
    [run EXCEPT !.pc = "after", !.i = 1, !.result = ToolResult(run.args),
                !.tool_log = Append(@, run.args)]

\* The next after-hook is awaited with the final arguments and the current
\* result; what it returns is the current result from then on
RunNextAfterHook(run, hooks) ==
    [run EXCEPT !.i = @ + 1,
                !.result = AfterHookResult(hooks[run.i], @),
                !.after_log = Append(@, [hook |-> run.i, args |-> run.args,
                                         result |-> run.result])]

\* The tool calls of a turn, about to be handled
NewCalls(args) ==
    [c \in Calls |->
        [tool_name |-> IF c = "first" THEN Str1("a") ELSE Str1("b"),
         tool_args |-> args[c],
         run |-> [NoRun EXCEPT !.args = args[c]]]]

\* A ToolManager given its hooks, after its first for_run_step, and the tool
\* calls of the first turn
InitSteps ==
    /\ tool_manager \in [before_tool_call_hooks : SeqsUpTo(PlainBeforeHooks, MaxHooks),
                         after_tool_call_hooks : SeqsUpTo(AfterHooks, MaxAfterHooks)]
    /\ call = [tool_name |-> <<>>, tool_args |-> 0, run |-> NoRun]
    /\ \E args \in [Calls -> {1, 2}] :
          turn = [run_step |-> 0, registered |-> tool_manager, calls |-> NewCalls(args)]

IdleSteps == turn = [run_step |-> 0, registered |-> <<>>, calls |-> <<>>]

\* The pipeline of call c takes its next before-hook
step_before_hook(c) ==
    /\ turn.calls[c].run.pc = "before"
    /\ turn.calls[c].run.i <= Len(tool_manager.before_tool_call_hooks)
    /\ turn' = [turn EXCEPT !.calls[c].run =
                   RunNextBeforeHook(@, tool_manager.before_tool_call_hooks,
                                     turn.calls[c].tool_name)]
    /\ UNCHANGED <<tool_manager, call, notSteps>>

step_invoke_tool(c) ==
    /\ turn.calls[c].run.pc = "before"
    /\ turn.calls[c].run.i > Len(tool_manager.before_tool_call_hooks)
    /\ turn' = [turn EXCEPT !.calls[c].run = InvokeTool(@)]
    /\ UNCHANGED <<tool_manager, call, notSteps>>

step_after_hook(c) ==
    /\ turn.calls[c].run.pc = "after"
    /\ turn.calls[c].run.i <= Len(tool_manager.after_tool_call_hooks)
    /\ turn' = [turn EXCEPT !.calls[c].run =
                   RunNextAfterHook(@, tool_manager.after_tool_call_hooks)]
    /\ UNCHANGED <<tool_manager, call, notSteps>>

step_return_result(c) ==
    /\ turn.calls[c].run.pc = "after"
    /\ turn.calls[c].run.i > Len(tool_manager.after_tool_call_hooks)
    /\ turn' = [turn EXCEPT !.calls[c].run = [@ EXCEPT !.pc = "returned"]]
    /\ UNCHANGED <<tool_manager, call, notSteps>>

\* Every call of the turn has returned or raised; the run goes on to its next
\* step with the manager that for_run_step returns
next_run_step ==
    /\ \A c \in Calls : turn.calls[c].run.pc \in {"returned", "raised"}
    /\ turn.run_step < MaxSteps
    /\ tool_manager' = for_run_step(tool_manager)
    /\ \E args \in [Calls -> {1, 2}] :
          turn' = [turn EXCEPT !.run_step = @ + 1, !.calls = NewCalls(args)]
    /\ UNCHANGED <<call, notSteps>>

NextSteps ==
    \/ \E c \in Calls :
          \/ step_before_hook(c)
          \/ step_invoke_tool(c)
          \/ step_after_hook(c)
          \/ step_return_result(c)
    \/ next_run_step

\* Whether the j-th before-hook that ran for a call returned replacement
\* arguments, and what it returned
Replaced(c, j) ==
    BeforeHookOutcome(tool_manager.before_tool_call_hooks[c.run.before_log[j].hook],
                      c.tool_name, c.run.before_log[j].args).returns

\* The arguments in force after the first j before-hooks of a call: those
\* returned by the closest of them that returned a replacement, or the
\* arguments of the call
InForce(c, j) ==
    LET replacing == {k \in 1..j : Replaced(c, k) # None}
    IN IF replacing = {} THEN c.tool_args
       ELSE Replaced(c, CHOOSE k \in replacing : \A l \in replacing : l <= k)

\* C14: for each tool call, also while another call of the turn is in flight,
\* the before-hooks run in registration order, each with the arguments
\* returned by the closest earlier hook that returned a replacement (the
\* call's own arguments if none did); the tool gets the final arguments; the
\* after-hooks then run in registration order, each with the final arguments
\* and the result of the previous after-hook (the tool's for the first), and
\* the call returns what the last after-hook returned.
C14_HooksRunInRegistrationOrder ==
    \A x \in DOMAIN turn.calls :
        LET c == turn.calls[x]
            run == c.run
            nb == Len(tool_manager.before_tool_call_hooks)
            na == Len(tool_manager.after_tool_call_hooks)
            after == tool_manager.after_tool_call_hooks
        IN /\ \A j \in 1..Len(run.before_log) :
                 /\ run.before_log[j].hook = j
                 /\ run.before_log[j].args = InForce(c, j - 1)
           /\ run.tool_log # <<>> =>
                 /\ Len(run.before_log) = nb
                 /\ run.tool_log = <<InForce(c, nb)>>
           /\ run.after_log # <<>> => run.tool_log # <<>>
           /\ \A j \in 1..Len(run.after_log) :
                 /\ run.after_log[j].hook = j
                 /\ run.after_log[j].args = InForce(c, nb)
                 /\ run.after_log[j].result =
                       IF j = 1 THEN ToolResult(InForce(c, nb))
                       ELSE AfterHookResult(after[j - 1], run.after_log[j - 1].result)
           /\ run.pc = "returned" =>
                 /\ Len(run.after_log) = na
                 /\ run.result =
                       IF na = 0 THEN ToolResult(InForce(c, nb))
                       ELSE AfterHookResult(after[na], run.after_log[na].result)

\* A call returned through three before-hooks, the second of which replaced
\* the arguments, and the after-hooks inc then double, while the other call
\* of the turn is between two of its before-hooks
C14_Witness ==
    /\ turn.calls # <<>>
    /\ Len(tool_manager.before_tool_call_hooks) = 3
    /\ tool_manager.after_tool_call_hooks = <<"inc", "double">>
    /\ turn.calls["first"].run.pc = "returned"
    /\ Replaced(turn.calls["first"], 1) = None
    /\ Replaced(turn.calls["first"], 2) # None
    /\ Replaced(turn.calls["first"], 3) = None
    /\ turn.calls["second"].run.pc = "before"
    /\ Len(turn.calls["second"].run.before_log) = 2

\* C15: the manager of every run step has the hook lists that the first
\* manager was given, and every tool call that returns, in whatever run step,
\* has passed through every registered before-hook and after-hook exactly
\* once.
C15_HooksCarriedAcrossRunSteps ==
    turn.calls # <<>> =>
        /\ tool_manager.before_tool_call_hooks = turn.registered.before_tool_call_hooks
        /\ tool_manager.after_tool_call_hooks = turn.registered.after_tool_call_hooks
        /\ \A x \in DOMAIN turn.calls :
              turn.calls[x].run.pc = "returned" =>
                 /\ [j \in 1..Len(turn.calls[x].run.before_log) |->
                        turn.calls[x].run.before_log[j].hook]
                       = [j \in 1..Len(turn.registered.before_tool_call_hooks) |-> j]
                 /\ [j \in 1..Len(turn.calls[x].run.after_log) |->
                        turn.calls[x].run.after_log[j].hook]
                       = [j \in 1..Len(turn.registered.after_tool_call_hooks) |-> j]

\* A call of the third run step returned through three before-hooks and two
\* after-hooks
C15_Witness ==
    /\ turn.calls # <<>>
    /\ turn.run_step = 2
    /\ Len(turn.registered.before_tool_call_hooks) = 3
    /\ Len(turn.registered.after_tool_call_hooks) = 2
    /\ turn.calls["second"].run.pc = "returned"
    /\ Len(turn.calls["second"].run.before_log) = 3

(***************************************************************************)
(* CombinedCapability: the model-request hooks of a list of capabilities.  *)
(***************************************************************************)
\* A child capability: one that keeps AbstractCapability's hooks, or one
\* whose hooks add its name to everything they are given
Capability(name, kind) == [name |-> name, kind |-> kind]
Capabilities == {Capability(n, k) : n \in {"A", "B"}, k \in {"default", "tags"}}

Triple(messages, model_settings, model_request_parameters) ==
    [messages |-> messages, model_settings |-> model_settings,
     model_request_parameters |-> model_request_parameters]

\* capability.before_model_request(ctx, messages=, model_settings=,
\* model_request_parameters=); AbstractCapability's returns them as given
child_before_model_request(capability, t) ==
    IF capability.kind = "default" THEN t
    ELSE Triple(Append(t.messages, capability.name),
                Append(t.model_settings, capability.name),
                Append(t.model_request_parameters, capability.name))

\* capability.after_model_request(ctx, response=)
child_after_model_request(capability, response) ==
    IF capability.kind = "default" THEN response
    ELSE Append(response, capability.name)

\* reversed(range)
reversed(seq) == [i \in 1..Len(seq) |-> seq[Len(seq) + 1 - i]]

Indices(seq) == [i \in 1..Len(seq) |-> i]

\* for capability in self.capabilities: the triple is handed from child to
\* child; calls records which child was called with what
RECURSIVE BeforeLoop(_, _, _, _)
BeforeLoop(caps, order, t, calls) ==
    IF order = <<>> THEN [returns |-> t, calls |-> calls]
    ELSE BeforeLoop(caps, Tail(order),
                    child_before_model_request(caps[Head(order)], t),
                    Append(calls, [child |-> Head(order), given |-> t]))

before_model_request(caps, t) == BeforeLoop(caps, Indices(caps), t, <<>>)

RECURSIVE AfterLoop(_, _, _, _)
AfterLoop(caps, order, response, calls) ==
    IF order = <<>> THEN [returns |-> response, calls |-> calls]
    ELSE AfterLoop(caps, Tail(order),
                   child_after_model_request(caps[Head(order)], response),
                   Append(calls, [child |-> Head(order), given |-> response]))

\* after hooks applied in the order of the list
after_model_request_forward(caps, response) ==
    AfterLoop(caps, Indices(caps), response, <<>>)

\* for capability in reversed(self.capabilities)
after_model_request(caps, response) ==
    AfterLoop(caps, reversed(Indices(caps)), response, <<>>)

NoTriple == Triple(<<>>, <<>>, <<>>)

NoRequest ==
    [pc |-> "new", given |-> NoTriple, sent |-> NoTriple, before_calls |-> <<>>,
     response |-> <<>>, returned |-> <<>>, after_calls |-> <<>>]

InitCombined ==
    /\ capabilities \in SeqsUpTo(Capabilities, MaxCaps)
    /\ \E messages \in {<<>>, <<"m">>} :
          request = [NoRequest EXCEPT !.given = Triple(messages, <<>>, <<>>)]

IdleCombined ==
    /\ capabilities = <<>>
    /\ request = NoRequest

\* CombinedCapability.before_model_request
BeforeModelRequest ==
    /\ request.pc = "new"
    /\ LET r == before_model_request(capabilities, request.given)
       IN request' = [request EXCEPT !.pc = "before done", !.sent = r.returns,
                                     !.before_calls = r.calls]
    /\ UNCHANGED <<capabilities, notCombined>>

\* The model answers the request that was sent
ModelResponds ==
    /\ request.pc = "before done"
    /\ \E text \in {"r1", "r2"} :
          request' = [request EXCEPT !.pc = "responded", !.response = <<text>>]
    /\ UNCHANGED <<capabilities, notCombined>>

\* CombinedCapability.after_model_request
AfterModelRequest ==
    /\ request.pc = "responded"
    /\ LET r == after_model_request(capabilities, request.response)
       IN request' = [request EXCEPT !.pc = "after done", !.returned = r.returns,
                                     !.after_calls = r.calls]
    /\ UNCHANGED <<capabilities, notCombined>>

NextCombined ==
    \/ BeforeModelRequest
    \/ ModelResponds
    \/ AfterModelRequest

\* C6: before_model_request calls the children in order c1..cn, each given
\* what the previous child returned, and returns what the last returned;
\* after_model_request calls them in order cn..c1, each given the response
\* the previous call returned.
C6_OnionOrder ==
    LET n == Len(capabilities)
        bc == request.before_calls
        ac == request.after_calls
    IN /\ request.pc # "new" =>
             /\ Len(bc) = n
             /\ \A j \in 1..n : bc[j].child = j
             /\ n > 0 => bc[1].given = request.given
             /\ \A j \in 1..n :
                   child_before_model_request(capabilities[j], bc[j].given) =
                       (IF j < n THEN bc[j + 1].given ELSE request.sent)
             /\ n = 0 => request.sent = request.given
       /\ request.pc = "after done" =>
             /\ Len(ac) = n
             /\ \A j \in 1..n : ac[j].child = n + 1 - j
             /\ n > 0 => ac[1].given = request.response
             /\ \A j \in 1..n :
                   child_after_model_request(capabilities[ac[j].child], ac[j].given) =
                       (IF j < n THEN ac[j + 1].given ELSE request.returned)
             /\ n = 0 => request.returned = request.response

\* Three children, the first and the last with hooks of their own
C6_Witness ==
    /\ request.pc = "after done"
    /\ Len(capabilities) = 3
    /\ capabilities[1] = Capability("A", "tags")
    /\ capabilities[3] = Capability("B", "tags")
    /\ request.sent.messages = <<"m", "A", "B">>
    /\ request.returned = <<"r1", "B", "A">>

(***************************************************************************)
(* CombinedCapability holding CombinedCapability: the model-request hooks  *)
(* of a tree of capabilities.                                              *)
(***************************************************************************)
MaxNested == 2

\* A capability that is no CombinedCapability, with the list it does not have
Leaf(name, kind) == [name |-> name, kind |-> kind, capabilities |-> <<>>]

\* CombinedCapability(capabilities)
CombinedCapability(caps) ==
    [name |-> "combined", kind |-> "combined", capabilities |-> caps]

Leaves == {Leaf(n, k) : n \in {"A", "B", "C"}, k \in {"default", "tags"}}

\* What a CombinedCapability of the model may hold: a leaf, or a
\* CombinedCapability of up to MaxNested leaves
Members == Leaves \cup {CombinedCapability(caps) : caps \in SeqsUpTo(Leaves, MaxNested)}

\* The leaves of a list of members from left to right
RECURSIVE Flatten(_)
Flatten(caps) ==
    IF caps = <<>> THEN <<>>
    ELSE (IF Head(caps).kind = "combined" THEN Head(caps).capabilities ELSE <<Head(caps)>>)
         \o Flatten(Tail(caps))

RECURSIVE capability_after_forward(_, _, _)
RECURSIVE capability_before(_, _, _)
RECURSIVE capability_after(_, _, _)

\* for capability in self.capabilities, where a capability may be a
\* CombinedCapability itself
RECURSIVE NestedBeforeLoop(_, _, _, _)
NestedBeforeLoop(caps, order, t, calls) ==
    IF order = <<>> THEN [returns |-> t, calls |-> calls]
    ELSE LET r == capability_before(caps[Head(order)], t, calls)
         IN NestedBeforeLoop(caps, Tail(order), r.returns, r.calls)

\* capability.before_model_request: CombinedCapability's loop, or the hook
\* of a leaf, whose call goes on record under the leaf's name
capability_before(capability, t, calls) ==
    IF capability.kind = "combined"
    THEN NestedBeforeLoop(capability.capabilities, Indices(capability.capabilities), t, calls)
    ELSE [returns |-> child_before_model_request(capability, t),
          calls |-> Append(calls, [child |-> capability.name, given |-> t])]

RECURSIVE NestedAfterLoopForward(_, _, _, _)
NestedAfterLoopForward(caps, order, response, calls) ==
    IF order = <<>> THEN [returns |-> response, calls |-> calls]
    ELSE LET r == capability_after_forward(caps[Head(order)], response, calls)
         IN NestedAfterLoopForward(caps, Tail(order), r.returns, r.calls)

\* after_model_request with a CombinedCapability going through its list from
\* the front
capability_after_forward(capability, response, calls) ==
    IF capability.kind = "combined"
    THEN NestedAfterLoopForward(capability.capabilities, Indices(capability.capabilities),
                                response, calls)
    ELSE [returns |-> child_after_model_request(capability, response),
          calls |-> Append(calls, [child |-> capability.name, given |-> response])]

RECURSIVE NestedAfterLoop(_, _, _, _)
NestedAfterLoop(caps, order, response, calls) ==
    IF order = <<>> THEN [returns |-> response, calls |-> calls]
    ELSE LET r == capability_after(caps[Head(order)], response, calls)
         IN NestedAfterLoop(caps, Tail(order), r.returns, r.calls)

\* capability.after_model_request: for capability in
\* reversed(self.capabilities) in a CombinedCapability, or the hook of a leaf
capability_after(capability, response, calls) ==
    IF capability.kind = "combined"
    THEN NestedAfterLoop(capability.capabilities, reversed(Indices(capability.capabilities)),
                         response, calls)
    ELSE [returns |-> child_after_model_request(capability, response),
          calls |-> Append(calls, [child |-> capability.name, given |-> response])]

\* The outer CombinedCapability holds up to MaxNested members
InitNested ==
    /\ \E n \in 0..MaxNested : capabilities \in [1..n -> Members]
    /\ \E messages \in {<<>>, <<"m">>} :
          request = [NoRequest EXCEPT !.given = Triple(messages, <<>>, <<>>)]

\* before_model_request of the outer CombinedCapability
NestedBeforeModelRequest ==
    /\ request.pc = "new"
    /\ LET r == capability_before(CombinedCapability(capabilities), request.given, <<>>)
       IN request' = [request EXCEPT !.pc = "before done", !.sent = r.returns,
                                     !.before_calls = r.calls]
    /\ UNCHANGED <<capabilities, notCombined>>

\* after_model_request of the outer CombinedCapability
NestedAfterModelRequest ==
    /\ request.pc = "responded"
    /\ LET r == capability_after(CombinedCapability(capabilities), request.response, <<>>)
       IN request' = [request EXCEPT !.pc = "after done", !.returned = r.returns,
                                     !.after_calls = r.calls]
    /\ UNCHANGED <<capabilities, notCombined>>

NextNested ==
    \/ NestedBeforeModelRequest
    \/ ModelResponds
    \/ NestedAfterModelRequest

\* The calls a CombinedCapability over a flat list made, under the names of
\* the children called
CallsByName(caps, calls) ==
    [i \in 1..Len(calls) |-> [child |-> caps[calls[i].child].name, given |-> calls[i].given]]

\* Every capability of a list keeps AbstractCapability's hooks
OverridesNothing(caps) == \A i \in 1..Len(caps) : caps[i].kind = "default"

\* C39: a CombinedCapability holding CombinedCapabilities calls the leaves'
\* before_model_request from left to right and their after_model_request
\* from right to left, each given what the one before it returned, and
\* returns what the CombinedCapability over the flat list of the same leaves
\* returns; with no leaves at all, or only leaves that override nothing, both
\* hooks return what they were given.
C39_NestingKeepsHookOrder ==
    LET flat == Flatten(capabilities)
        before == before_model_request(flat, request.given)
        after == after_model_request(flat, request.response)
    IN /\ request.pc \in {"before done", "responded", "after done"} =>
            /\ request.sent = before.returns
            /\ request.before_calls = CallsByName(flat, before.calls)
            /\ OverridesNothing(flat) => request.sent = request.given
       /\ request.pc = "after done" =>
            /\ request.returned = after.returns
            /\ request.after_calls = CallsByName(flat, after.calls)
            /\ OverridesNothing(flat) => request.returned = request.response

\* [[A, B], C] with every hook overridden has run both hooks
C39_Witness ==
    /\ capabilities = <<CombinedCapability(<<Leaf("A", "tags"), Leaf("B", "tags")>>),
                        Leaf("C", "tags")>>
    /\ request.pc = "after done"
    /\ request.sent.messages = request.given.messages \o <<"A", "B", "C">>
    /\ request.returned = request.response \o <<"C", "B", "A">>

\* [A, [B, C]]
NestedOnTheRight ==
    /\ capabilities = <<Leaf("A", "tags"),
                        CombinedCapability(<<Leaf("B", "tags"), Leaf("C", "tags")>>)>>
    /\ request.pc = "after done"
    /\ request.returned = request.response \o <<"C", "B", "A">>

\* A CombinedCapability of nothing inside a CombinedCapability
EmptyInside ==
    /\ capabilities = <<CombinedCapability(<<>>)>>
    /\ request.pc = "after done"
    /\ request.returned = request.response

(***************************************************************************)
(* Compaction policies: observation masking, summarization and masked      *)
(* summarization, as capabilities and as history processors.               *)
(***************************************************************************)
\* Message parts
Part(part_kind, content, tool_call_id) ==
    [part_kind |-> part_kind, content |-> content, tool_call_id |-> tool_call_id]
UserPromptPart == Part("user-prompt", "hello", None)
ToolReturnPart(id) == Part("tool-return", "data", id)
RetryPromptPart(id) == Part("retry-prompt", "try again", id)
SystemPromptPart(content) == Part("system-prompt", content, None)
TextPart == Part("text", "hi", None)
ToolCallPart(id) == Part("tool-call", "args", id)

ModelRequest(parts) == [kind |-> "request", parts |-> parts, input_tokens |-> 0]
ModelResponse(parts, input_tokens) ==
    [kind |-> "response", parts |-> parts, input_tokens |-> input_tokens]

ToolCallIds == {1, 2}

Requests ==
    {ModelRequest(<<UserPromptPart>>), ModelRequest(<<RetryPromptPart(1)>>)}
        \cup {ModelRequest(<<ToolReturnPart(id)>>) : id \in ToolCallIds}

Responses ==
    {ModelResponse(<<TextPart>>, 0), ModelResponse(<<TextPart>>, 9)}
        \cup {ModelResponse(<<ToolCallPart(id)>>, 9) : id \in ToolCallIds}

\* Histories as a run builds them: requests and responses in turn, starting
\* with a request
RECURSIVE Histories(_)
Histories(n) ==
    IF n = 0 THEN {<<>>}
    ELSE LET shorter == Histories(n - 1)
         IN shorter \cup
            {Append(h, m) : h \in {x \in shorter : Len(x) = n - 1},
                            m \in IF n % 2 = 1 THEN Requests ELSE Responses}

\* trigger_ratio, 0.7, as a fraction
TriggerRatioNum == 7
TriggerRatioDen == 10
\* '[compacted]'
placeholder == "[compacted]"

\* messages[:k]
PySliceTo(messages, k) ==
    LET n == Len(messages)
        stop == IF k < 0 THEN (IF n + k < 0 THEN 0 ELSE n + k)
                ELSE (IF k > n THEN n ELSE k)
    IN SubSeq(messages, 1, stop)

\* messages[k:]
PySliceFrom(messages, k) ==
    LET n == Len(messages)
        start == IF k < 0 THEN (IF n + k < 0 THEN 0 ELSE n + k)
                 ELSE (IF k > n THEN n ELSE k)
    IN SubSeq(messages, start + 1, n)

\* should_compact(usage, context_window=, trigger_ratio=)
should_compact_usage(total_tokens, context_window) ==
    IF context_window # None /\ total_tokens > 0
    THEN total_tokens * TriggerRatioDen > TriggerRatioNum * context_window
    ELSE FALSE

\* last_input_tokens(messages)
RECURSIVE last_input_tokens(_)
last_input_tokens(messages) ==
    IF messages = <<>> THEN None
    ELSE LET message == messages[Len(messages)]
         IN IF message.kind = "response" /\ message.input_tokens > 0
            THEN message.input_tokens
            ELSE last_input_tokens(SubSeq(messages, 1, Len(messages) - 1))

\* should_compact(messages, context_window=, trigger_ratio=, fallback_threshold=)
should_compact_messages(messages, context_window, fallback_threshold) ==
    IF context_window # None /\ last_input_tokens(messages) # None
    THEN last_input_tokens(messages) * TriggerRatioDen > TriggerRatioNum * context_window
    ELSE Len(messages) > fallback_threshold

\* A masking loop that restores a part it finds masked
MaskMessageFlip(message) ==
    IF message.kind = "request"
    THEN [message EXCEPT !.parts =
            [i \in 1..Len(message.parts) |->
                IF message.parts[i].part_kind \in {"tool-return", "retry-prompt"}
                THEN [message.parts[i] EXCEPT
                         !.content = IF @ = placeholder THEN "data" ELSE placeholder]
                ELSE message.parts[i]]]
    ELSE message

\* The masking loop over the parts of one copied message
MaskMessage(message) ==
    IF message.kind = "request"
    THEN [message EXCEPT !.parts =
            [i \in 1..Len(message.parts) |->
                IF message.parts[i].part_kind \in {"tool-return", "retry-prompt"}
                THEN [message.parts[i] EXCEPT !.content = placeholder]
                ELSE message.parts[i]]]
    ELSE message

\* One line of the transcript for each part that format_messages renders
FormatPart(kind, part) ==
    IF kind = "request"
    THEN IF part.part_kind = "user-prompt" THEN <<<<"User", part.content>>>>
         ELSE IF part.part_kind = "system-prompt" THEN <<<<"System", part.content>>>>
         ELSE IF part.part_kind = "tool-return" THEN <<<<"Tool Result", part.content>>>>
         ELSE <<>>
    ELSE IF part.part_kind = "text" THEN <<<<"Assistant", part.content>>>>
         ELSE IF part.part_kind = "tool-call" THEN <<<<"Tool Call", part.content>>>>
         ELSE <<>>

RECURSIVE FormatParts(_, _)
FormatParts(kind, parts) ==
    IF parts = <<>> THEN <<>>
    ELSE FormatPart(kind, Head(parts)) \o FormatParts(kind, Tail(parts))

\* format_messages(messages): the lines of the transcript
RECURSIVE format_messages(_)
format_messages(messages) ==
    IF messages = <<>> THEN <<>>
    ELSE FormatParts(Head(messages).kind, Head(messages).parts)
             \o format_messages(Tail(messages))

\* What a policy call gives back: the history, and, for what follows, whether
\* the trigger fired and the prompts the secondary agent was run with
Returned(messages, triggered, prompts) ==
    [messages |-> messages, triggered |-> triggered, prompts |-> prompts]

\* cutoff = len(messages) - keep_last; older = deepcopy(messages[:cutoff]);
\* mask older; [*older, *messages[cutoff:]]
MaskOlder(messages, keep_last) ==
    LET cutoff == Len(messages) - keep_last
        older == PySliceTo(messages, cutoff)
    IN [i \in 1..Len(older) |-> MaskMessage(older[i])] \o PySliceFrom(messages, cutoff)

\* A summarization that returns the recent messages without the summary
SummarizeOlderRecentOnly(messages, keep_last, summary) ==
    LET cutoff == Len(messages) - keep_last
    IN Returned(PySliceFrom(messages, cutoff), TRUE,
                <<format_messages(PySliceTo(messages, cutoff))>>)

\* cutoff = len(messages) - keep_last; older = messages[:cutoff];
\* recent = messages[cutoff:]; the agent summarizes format_messages(older);
\* [summary_message, *recent]
SummarizeOlder(messages, keep_last, summary) ==
    LET cutoff == Len(messages) - keep_last
        older == PySliceTo(messages, cutoff)
        recent == PySliceFrom(messages, cutoff)
        summary_message == ModelRequest(<<SystemPromptPart(summary)>>)
    IN Returned(<<summary_message>> \o recent, TRUE, <<format_messages(older)>>)

\* ObservationMaskingCapability._mask_messages
mask_messages(self, ctx, messages) ==
    IF ~should_compact_usage(ctx.total_tokens, ctx.context_window)
    THEN Returned(messages, FALSE, <<>>)
    ELSE Returned(MaskOlder(messages, self.keep_last), TRUE, <<>>)

\* ObservationMaskingProcessor.__call__
ObservationMaskingProcessor_call(self, ctx, messages) ==
    IF ~should_compact_messages(messages, ctx.context_window, self.keep_last)
    THEN Returned(messages, FALSE, <<>>)
    ELSE Returned(MaskOlder(messages, self.keep_last), TRUE, <<>>)

\* SummarizationCapability._summarize_messages
summarize_messages(self, ctx, messages, summary) ==
    IF ~should_compact_usage(ctx.total_tokens, ctx.context_window)
    THEN Returned(messages, FALSE, <<>>)
    ELSE SummarizeOlder(messages, self.keep_last, summary)

\* SummarizationProcessor.__call__
SummarizationProcessor_call(self, ctx, messages, summary) ==
    IF ~should_compact_usage(ctx.total_tokens, ctx.context_window)
    THEN Returned(messages, FALSE, <<>>)
    ELSE SummarizeOlder(messages, self.keep_last, summary)

\* MaskedSummarizationProcessor.__call__: the masking processor's call, then
\* the trigger on what it returned, then the summary
MaskedSummarizationProcessor_call(self, ctx, messages, summary) ==
    LET masked == ObservationMaskingProcessor_call(self, ctx, messages).messages
    IN IF ~should_compact_messages(masked, ctx.context_window, self.trigger_threshold)
       THEN Returned(masked, FALSE, <<>>)
       ELSE SummarizeOlder(masked, self.keep_last, summary)

\* MaskedSummarization._summarize_messages (the capability form): the
\* trigger, then _mask_messages, then the return of the masked history from
\* inside the span; the secondary agent is not run
masked_summarize_messages(self, ctx, messages) ==
    IF ~should_compact_usage(ctx.total_tokens, ctx.context_window)
    THEN Returned(messages, FALSE, <<>>)
    ELSE Returned(mask_messages(self, ctx, messages).messages, TRUE, <<>>)

Policies ==
    {"ObservationMaskingCapability", "ObservationMaskingProcessor",
     "SummarizationCapability", "SummarizationProcessor",
     "MaskedSummarizationCapability", "MaskedSummarizationProcessor"}

\* What the secondary agent may answer
Summaries == {"s1", "s2"}

NotCompacted == [pc |-> "new", messages |-> <<>>, triggered |-> FALSE, prompts |-> <<>>]

\* A policy object, a run context with the model's context window and the
\* run's usage, and the history of the next model request
InitCompact ==
    /\ compaction \in [policy : Policies,
                       keep_last : 0..MaxKeep,
                       trigger_threshold : {2},
                       context_window : {None, 10},
                       total_tokens : {0, 8},
                       messages : Histories(MaxMsgs)]
    /\ compacted = NotCompacted

IdleCompact ==
    /\ compaction = [policy |-> NoneStr, keep_last |-> 0, trigger_threshold |-> 0,
                     context_window |-> None, total_tokens |-> 0, messages |-> <<>>]
    /\ compacted = NotCompacted

Finished(r) ==
    /\ compacted' = [pc |-> "done", messages |-> r.messages,
                     triggered |-> r.triggered, prompts |-> r.prompts]
    /\ UNCHANGED <<compaction, notCompact>>

MaskingCapability ==
    /\ compacted.pc = "new"
    /\ compaction.policy = "ObservationMaskingCapability"
    /\ Finished(mask_messages(compaction, compaction, compaction.messages))

MaskingProcessor ==
    /\ compacted.pc = "new"
    /\ compaction.policy = "ObservationMaskingProcessor"
    /\ Finished(ObservationMaskingProcessor_call(compaction, compaction, compaction.messages))

SummarizationCapability ==
    /\ compacted.pc = "new"
    /\ compaction.policy = "SummarizationCapability"
    /\ \E summary \in Summaries :
          Finished(summarize_messages(compaction, compaction, compaction.messages, summary))

SummarizationProcessor ==
    /\ compacted.pc = "new"
    /\ compaction.policy = "SummarizationProcessor"
    /\ \E summary \in Summaries :
          Finished(SummarizationProcessor_call(compaction, compaction,
                                               compaction.messages, summary))

MaskedSummarizationProcessor ==
    /\ compacted.pc = "new"
    /\ compaction.policy = "MaskedSummarizationProcessor"
    /\ \E summary \in Summaries :
          Finished(MaskedSummarizationProcessor_call(compaction, compaction,
                                                     compaction.messages, summary))

MaskedSummarizationCapability ==
    /\ compacted.pc = "new"
    /\ compaction.policy = "MaskedSummarizationCapability"
    /\ Finished(masked_summarize_messages(compaction, compaction, compaction.messages))

NextCompact ==
    \/ MaskedSummarizationCapability
    \/ MaskingCapability
    \/ MaskingProcessor
    \/ SummarizationCapability
    \/ SummarizationProcessor
    \/ MaskedSummarizationProcessor

\* The tool-call id of a message's tool-call or tool-return part
HasPart(message, kind, part_kind, id) ==
    /\ message.kind = kind
    /\ \E i \in 1..Len(message.parts) :
          message.parts[i].part_kind = part_kind /\ message.parts[i].tool_call_id = id

\* Every tool-return part sits in the request directly after the response
\* holding the tool-call part with its id
ReturnsFollowCalls(h) ==
    \A j \in 1..Len(h), id \in ToolCallIds :
        HasPart(h[j], "request", "tool-return", id) =>
            j > 1 /\ HasPart(h[j - 1], "response", "tool-call", id)

\* The tool calls of a history whose return does not follow them
UnansweredCalls(h) ==
    Cardinality({<<j, id>> \in (1..Len(h)) \X ToolCallIds :
        /\ HasPart(h[j], "response", "tool-call", id)
        /\ ~(j < Len(h) /\ HasPart(h[j + 1], "request", "tool-return", id))})

\* C7: no compaction policy separates a tool call from its tool return: when
\* every tool return of the input directly follows its tool call, the output
\* keeps no tool return whose tool-call response was dropped and no tool call
\* whose tool return was dropped.
C7_PairsNeverSeparated ==
    (compacted.pc = "done" /\ ReturnsFollowCalls(compaction.messages)) =>
        /\ ReturnsFollowCalls(compacted.messages)
        /\ UnansweredCalls(compacted.messages) <= UnansweredCalls(compaction.messages)

\* C8: when observation masking triggers, the last min(keep_last, n) of the n
\* messages come back with no content replaced.
C8_KeepLastWindowUntouched ==
    (/\ compacted.pc = "done"
     /\ compacted.triggered
     /\ compaction.policy \in {"ObservationMaskingCapability", "ObservationMaskingProcessor"}) =>
        LET n == Len(compaction.messages)
            window == IF compaction.keep_last < n THEN compaction.keep_last ELSE n
        IN /\ Len(compacted.messages) = n
           /\ \A i \in (n - window + 1)..n : compacted.messages[i] = compaction.messages[i]

(***************************************************************************)
(* Tool calls issued one at a time against one TodoToolset                 *)
(***************************************************************************)
\* The ids a call created, removed or changed
Touched(before, after) ==
    {i \in DOMAIN before \cup DOMAIN after :
        \/ i \notin DOMAIN before
        \/ i \notin DOMAIN after
        \/ before[i] # after[i]}

Apply(op, out) ==
    /\ todos' = out.todos
    /\ next_id' = out.next_id
    /\ last' = [op |-> op, err |-> out.err, touched |-> Touched(todos, out.todos)]
    /\ UNCHANGED notTodo

OptDepLists == DepLists \cup {NoneList}

\* A create_todo call: at most cap ids are handed out; the caller's content
\* and active_form come from the given sets
create_todo(cap, contents, forms) ==
    /\ next_id <= cap
    /\ \E content \in contents, active_form \in forms, depends_on \in OptDepLists :
          Apply("create_todo", create_todo_call(todos, next_id, content, active_form, depends_on))

\* An update_todo call: every argument but todo_id is optional
update_todo(contents, forms, statuses) ==
    \E todo_id \in ArgIds, content \in contents \cup {NoneStr},
       active_form \in forms \cup {NoneStr}, status \in statuses \cup {NoneStr},
       depends_on \in OptDepLists :
          Apply("update_todo",
                update_todo_call(todos, next_id, todo_id, content, active_form, status, depends_on))

complete_todo ==
    \E todo_id \in ArgIds :
        Apply("complete_todo", complete_todo_call(todos, next_id, todo_id))

delete_todo ==
    \E todo_id \in ArgIds :
        Apply("delete_todo", delete_todo_call(todos, next_id, todo_id))

NoCall == [op |-> "none", err |-> "ok", touched |-> {}]

\* A TodoToolset after construction: an empty InMemoryTodoStorage
InitTodo ==
    /\ todos = <<>>
    /\ next_id = 1
    /\ last = NoCall

IdleTodo == InitTodo

IdleShared ==
    /\ aliasing = TRUE
    /\ tasks = <<>>

\* The dependency graph: three todos, one content and one active form, and
\* update_todo calls that pass todo_id, status and depends_on only
NextTodo ==
    \/ create_todo(MaxTodos, {"c1"}, {"a1"})
    \/ update_todo({}, {}, {"in_progress"})
    \/ complete_todo
    \/ delete_todo


\* The fields of a todo: fewer todos, every field with several values
NextTodoFields ==
    \/ create_todo(MaxFieldTodos, Contents, ActiveForms)
    \/ update_todo(Contents, ActiveForms, TodoStatus)
    \/ complete_todo
    \/ delete_todo



(***************************************************************************)
(* The dependency graph of the stored todos                                *)
(***************************************************************************)
\* The ids todo i depends on
DepSet(s, i) == {s[i].depends_on[k] : k \in 1..Len(s[i].depends_on)}

\* Remove, again and again, every todo none of whose dependencies is left:
\* what stays lies on a cycle or depends on one
RECURSIVE Peel(_, _)
Peel(s, left) ==
    LET free == {i \in left : DepSet(s, i) \cap left = {}}
    IN IF free = {} THEN left ELSE Peel(s, left \ free)

IsAcyclic(s) == Peel(s, DOMAIN s) = {}

\* C1: after any sequence of create_todo, update_todo, complete_todo and
\* delete_todo calls made one at a time, the depends_on relation over the
\* stored todos has no directed cycle and no todo depends on itself.
C1_Acyclic ==
    /\ IsAcyclic(todos)
    /\ \A i \in DOMAIN todos : i \notin DepSet(todos, i)

\* C1's case: an update_todo was rejected for a cycle that runs through a
\* chain of three todos
C1_Witness ==
    /\ last.op = "update_todo"
    /\ last.err = "cycle"
    /\ \E a, b, c \in DOMAIN todos :
          /\ a # b /\ b # c /\ a # c
          /\ b \in DepSet(todos, a)
          /\ c \in DepSet(todos, b)

\* C9: a rejected create_todo, update_todo, complete_todo or delete_todo
\* leaves the storage as it was: no todo created or removed, no field of any
\* todo changed, the next id unchanged.
C9_RejectedCallChangesNothing ==
    [][last'.err # "ok" => (todos' = todos /\ next_id' = next_id)]_vars

\* C9's case: an update_todo rejected for a cycle, on a todo whose content,
\* active form and status differ from what create_todo gave it
C9_Witness ==
    /\ last.op = "update_todo"
    /\ last.err = "cycle"
    /\ \E i \in DOMAIN todos : todos[i].content = "c2" /\ todos[i].status = "in_progress"

\* C10: after any sequence of todo tool calls made one at a time, every id
\* in a stored todo's depends_on is the id of a stored todo.
C10_NoDanglingDependency ==
    \A i \in DOMAIN todos : DepSet(todos, i) \subseteq DOMAIN todos

\* C10's case: a delete_todo removed a todo and rewrote the depends_on of
\* another one, which still depends on a third
C10_Witness ==
    /\ last.op = "delete_todo"
    /\ last.err = "ok"
    /\ \E i \in last.touched : i \in DOMAIN todos /\ DepSet(todos, i) # {}


(***************************************************************************)
(* Concurrent tool calls on an explicitly shared TodoStorage.  Every       *)
(* storage operation is awaited, so another call may run between two of    *)
(* them; an action is one storage operation together with the code that    *)
(* runs up to the next await.  The TodoStorage protocol does not say       *)
(* whether get and list return the stored objects or copies: aliasing      *)
(* tells which, and both are explored.                                     *)
(***************************************************************************)
Tasks == 1..NumTasks

NoTodo == Todo("", "", "", <<>>)

IdleTask(calls) ==
    [pc |-> "idle", todo_id |-> None, depends_on |-> NoneList, status |-> NoneStr,
     todo |-> NoTodo, i |-> 0, err |-> "ok", calls |-> calls]

\* The todo object a task got from storage.get: the stored object itself
\* when the storage hands out its objects, else the task's copy
TaskTodo(t) == IF aliasing THEN todos[tasks[t].todo_id] ELSE tasks[t].todo

Finish(t, err) ==
    tasks' = [tasks EXCEPT ![t] = [IdleTask(tasks[t].calls) EXCEPT !.err = err]]

\* The depends_on loop of update_todo from index i on, up to its next await:
\* the self-dependency check of dep i, then storage.get(dep i); after the
\* loop, _would_create_cycle awaits storage.list
UpdateLoopFrom(t, rec, i) ==
    IF i > Len(rec.depends_on)
    THEN tasks' = [tasks EXCEPT ![t] = [rec EXCEPT !.pc = "update_list", !.i = i]]
    ELSE IF rec.depends_on[i] = rec.todo_id
         THEN Finish(t, "self_dep")
         ELSE tasks' = [tasks EXCEPT ![t] = [rec EXCEPT !.pc = "update_dep", !.i = i]]

\* A task starts update_todo(todo_id, status, depends_on) and awaits
\* storage.get(todo_id)
update_todo_start(t) ==
    /\ tasks[t].pc = "idle"
    /\ tasks[t].calls < MaxCalls
    /\ \E todo_id \in 1..SharedTodos, status \in {NoneStr, "in_progress"},
          depends_on \in SeqsUpTo(1..SharedTodos, MaxDeps) \cup {NoneList} :
          tasks' = [tasks EXCEPT ![t] =
                       [pc |-> "update_get", todo_id |-> todo_id, depends_on |-> depends_on,
                        status |-> status, todo |-> NoTodo, i |-> 0, err |-> "ok",
                        calls |-> tasks[t].calls + 1]]
    /\ UNCHANGED <<storageVars, aliasing, notShared>>

\* todo = await storage.get(todo_id), then the code up to the next await
update_todo_get(t) ==
    /\ tasks[t].pc = "update_get"
    /\ IF ~StorageHas(todos, tasks[t].todo_id)
       THEN Finish(t, "not_found")
       ELSE LET rec == [tasks[t] EXCEPT
                           !.todo = IF aliasing THEN NoTodo ELSE todos[tasks[t].todo_id]]
            IN IF rec.depends_on # NoneList
               THEN UpdateLoopFrom(t, rec, 1)
               ELSE tasks' = [tasks EXCEPT ![t] =
                        [rec EXCEPT !.pc = "update_write",
                            !.todo = IF aliasing THEN NoTodo
                                     ELSE UpdatedFields(rec.todo, NoneStr, NoneStr,
                                                        rec.status, NoneList)]]
    /\ todos' = IF aliasing /\ StorageHas(todos, tasks[t].todo_id)
                   /\ tasks[t].depends_on = NoneList
                THEN [todos EXCEPT ![tasks[t].todo_id] =
                         UpdatedFields(@, NoneStr, NoneStr, tasks[t].status, NoneList)]
                ELSE todos
    /\ UNCHANGED <<next_id, aliasing, notShared>>

\* await storage.get(dep_id) for dep i, then the loop up to its next await
update_todo_dep(t) ==
    /\ tasks[t].pc = "update_dep"
    /\ IF ~StorageHas(todos, tasks[t].depends_on[tasks[t].i])
       THEN Finish(t, "dep_missing")
       ELSE UpdateLoopFrom(t, tasks[t], tasks[t].i + 1)
    /\ UNCHANGED <<storageVars, aliasing, notShared>>

\* todos = await storage.list() in _would_create_cycle, the search, and on
\* success the assignments to the todo object, up to await storage.update
update_todo_list(t) ==
    /\ tasks[t].pc = "update_list"
    /\ LET rec == tasks[t]
           cyc == would_create_cycle(todos, rec.todo_id, rec.depends_on)
       IN IF cyc # None
          THEN Finish(t, "cycle") /\ UNCHANGED todos
          ELSE IF aliasing
               THEN /\ tasks' = [tasks EXCEPT ![t] = [rec EXCEPT !.pc = "update_write"]]
                    /\ todos' = IF StorageHas(todos, rec.todo_id)
                                THEN [todos EXCEPT ![rec.todo_id] =
                                         UpdatedFields(@, NoneStr, NoneStr, rec.status,
                                                       rec.depends_on)]
                                ELSE todos
               ELSE /\ tasks' = [tasks EXCEPT ![t] =
                                    [rec EXCEPT !.pc = "update_write",
                                        !.todo = UpdatedFields(rec.todo, NoneStr, NoneStr,
                                                               rec.status, rec.depends_on)]]
                    /\ UNCHANGED todos
    /\ UNCHANGED <<next_id, aliasing, notShared>>

\* await storage.update(todo): self._todos[todo.id] = todo
update_todo_write(t) ==
    /\ tasks[t].pc = "update_write"
    /\ todos' = IF aliasing THEN todos
                ELSE StorageUpdate(todos, tasks[t].todo_id, tasks[t].todo)
    /\ Finish(t, "ok")
    /\ UNCHANGED <<next_id, aliasing, notShared>>

\* A storage supplied by the caller, holding todos that earlier calls
\* created, none depending on another; no call is in flight
InitShared ==
    /\ todos = [i \in 1..SharedTodos |-> Todo("c1", "pending", "a1", <<>>)]
    /\ next_id = SharedTodos + 1
    /\ aliasing \in BOOLEAN
    /\ tasks = [t \in Tasks |-> IdleTask(0)]


NextTodoShared ==
    \E t \in Tasks :
        \/ update_todo_start(t)
        \/ update_todo_get(t)
        \/ update_todo_dep(t)
        \/ update_todo_list(t)
        \/ update_todo_write(t)


\* The ids of a set in ascending order: the order in which list() yields the
\* todos of a dict filled in id order
RECURSIVE SortedIds(_)
SortedIds(S) ==
    IF S = {} THEN <<>>
    ELSE LET least == CHOOSE x \in S : \A y \in S : x <= y
         IN <<least>> \o SortedIds(S \ {least})

\* The ids of a sequence that satisfy a test, in order
RECURSIVE IdsWhere(_, _, _)
IdsWhere(ids, snapshot, todo_id) ==
    IF ids = <<>> THEN <<>>
    ELSE (IF InList(todo_id, snapshot[Head(ids)].depends_on) THEN <<Head(ids)>> ELSE <<>>)
             \o IdsWhere(Tail(ids), snapshot, todo_id)

\* A create_todo or delete_todo call in flight: what the tool function holds
\* at an await
CallInFlight(pc, todo_id, depends_on, i, calls, snapshot, pending) ==
    [pc |-> pc, todo_id |-> todo_id, depends_on |-> depends_on, status |-> NoneStr,
     todo |-> NoTodo, i |-> i, err |-> "ok", calls |-> calls,
     snapshot |-> snapshot, pending |-> pending]

\* The validation loop of create_todo from index i on, up to its next await:
\* storage.get(dep i), or storage.create after the last dep
CreateLoopFrom(t, rec, i) ==
    tasks' = [tasks EXCEPT ![t] =
                 [rec EXCEPT !.pc = IF i > Len(rec.depends_on) THEN "create_create"
                                    ELSE "create_dep",
                             !.i = i]]

\* A task starts create_todo(content, active_form, depends_on):
\* dep_ids = depends_on or []
create_todo_start(t) ==
    /\ tasks[t].pc = "idle"
    /\ tasks[t].calls < MaxCalls
    /\ \E depends_on \in SeqsUpTo(1..SharedTodos, MaxDeps) \cup {NoneList} :
          LET dep_ids == IF depends_on = NoneList THEN <<>> ELSE depends_on
          IN CreateLoopFrom(t, CallInFlight("create", None, dep_ids, 1,
                                            tasks[t].calls + 1, <<>>, <<>>), 1)
    /\ UNCHANGED <<storageVars, aliasing, notShared>>

\* await storage.get(dep_id) for dep i of create_todo
create_todo_dep(t) ==
    /\ tasks[t].pc = "create_dep"
    /\ IF ~StorageHas(todos, tasks[t].depends_on[tasks[t].i])
       THEN Finish(t, "dep_missing")
       ELSE CreateLoopFrom(t, tasks[t], tasks[t].i + 1)
    /\ UNCHANGED <<storageVars, aliasing, notShared>>

\* todo = await storage.create(content, active_form, dep_ids)
create_todo_create(t) ==
    /\ tasks[t].pc = "create_create"
    /\ todos' = StorageCreate(todos, next_id, "c1", "a1", tasks[t].depends_on)
    /\ next_id' = next_id + 1
    /\ Finish(t, "ok")
    /\ UNCHANGED <<aliasing, notShared>>

\* A task starts delete_todo(todo_id) and awaits storage.get(todo_id)
delete_todo_start(t) ==
    /\ tasks[t].pc = "idle"
    /\ tasks[t].calls < MaxCalls
    /\ \E todo_id \in 1..SharedTodos :
          tasks' = [tasks EXCEPT ![t] =
                       CallInFlight("delete_get", todo_id, <<>>, 0, tasks[t].calls + 1,
                                    <<>>, <<>>)]
    /\ UNCHANGED <<storageVars, aliasing, notShared>>

\* todo = await storage.get(todo_id)
delete_todo_get(t) ==
    /\ tasks[t].pc = "delete_get"
    /\ IF ~StorageHas(todos, tasks[t].todo_id)
       THEN Finish(t, "not_found")
       ELSE tasks' = [tasks EXCEPT ![t] = [@ EXCEPT !.pc = "delete_delete"]]
    /\ UNCHANGED <<storageVars, aliasing, notShared>>

\* await storage.delete(todo_id)
delete_todo_delete(t) ==
    /\ tasks[t].pc = "delete_delete"
    /\ todos' = StorageDelete(todos, tasks[t].todo_id)
    /\ tasks' = [tasks EXCEPT ![t] = [@ EXCEPT !.pc = "delete_list"]]
    /\ UNCHANGED <<next_id, aliasing, notShared>>

\* The cleanup loop of delete_todo after a write, up to its next await: the
\* next listed todo that names todo_id, or the return
DeleteLoopFrom(t, rec, pending) ==
    IF pending = <<>> THEN Finish(t, "ok")
    ELSE tasks' = [tasks EXCEPT ![t] = [rec EXCEPT !.pc = "delete_update",
                                                   !.pending = pending]]

\* for t in await storage.list(): the todos as listed, and of those the ones
\* whose depends_on names todo_id
delete_todo_list(t) ==
    /\ tasks[t].pc = "delete_list"
    /\ LET rec == [tasks[t] EXCEPT !.snapshot = todos]
       IN DeleteLoopFrom(t, rec, IdsWhere(SortedIds(DOMAIN todos), todos, rec.todo_id))
    /\ UNCHANGED <<storageVars, aliasing, notShared>>

\* t.depends_on = [d for d in t.depends_on if d != todo_id];
\* await storage.update(t), for the next listed todo that names todo_id
delete_todo_update(t) ==
    /\ tasks[t].pc = "delete_update"
    /\ LET rec == tasks[t]
           k == Head(rec.pending)
       IN /\ todos' = StorageUpdate(todos, k,
                         [rec.snapshot[k] EXCEPT
                             !.depends_on = ListWithout(@, rec.todo_id)])
          /\ DeleteLoopFrom(t, rec, Tail(rec.pending))
    /\ UNCHANGED <<next_id, aliasing, notShared>>

\* A storage supplied by the caller that hands out copies of its todos, as a
\* storage kept outside the process does; each task has one call to make
InitRace ==
    /\ todos = [i \in 1..SharedTodos |-> Todo("c1", "pending", "a1", <<>>)]
    /\ next_id = SharedTodos + 1
    /\ aliasing = FALSE
    /\ tasks = [t \in Tasks |-> IdleTask(MaxCalls - 1)]

NextTodoRace ==
    \E t \in Tasks :
        \/ create_todo_start(t)
        \/ create_todo_dep(t)
        \/ create_todo_create(t)
        \/ delete_todo_start(t)
        \/ delete_todo_get(t)
        \/ delete_todo_delete(t)
        \/ delete_todo_list(t)
        \/ delete_todo_update(t)
        \/ update_todo_start(t)
        \/ update_todo_get(t)
        \/ update_todo_dep(t)
        \/ update_todo_list(t)
        \/ update_todo_write(t)

\* Every task has returned from its call
Quiescent == \A t \in Tasks : tasks[t].pc = "idle"

\* C11: on a shared storage whose operations are suspension points, once the
\* concurrent calls have finished no stored todo's depends_on holds the id of
\* a todo that is not stored, whatever the interleaving of create_todo,
\* update_todo and delete_todo.
C11_NoDanglingAfterConcurrentCalls ==
    Quiescent =>
        \A i \in DOMAIN todos : \A k \in 1..Len(todos[i].depends_on) :
            todos[i].depends_on[k] \in DOMAIN todos

\* C2: on a shared storage whose operations are suspension points, the
\* depends_on graph stays acyclic under every interleaving of concurrent
\* update_todo calls.
C2_AcyclicUnderConcurrentUpdates == IsAcyclic(todos)

(***************************************************************************)
(* Tool calls on a TodoToolset with their arguments and the strings they   *)
(* return on record                                                        *)
(***************************************************************************)
\* todos created where the arguments of every update_todo are on record
MaxCallTodos == 2

\* What a tool call on record leaves alone
notToolCall == <<sharedVars, permVars, hookVars, combinedVars, compactVars, lifeVars,
    stepVars, specVars, fetchVars, envVars>>

\* The arguments of a tool call; None for one the caller left out or the
\* tool does not take
Arguments(todo_id, content, active_form, status, depends_on) ==
    [todo_id |-> todo_id, content |-> content, active_form |-> active_form,
     status |-> status, depends_on |-> depends_on]

\* The string a tool returns: its fixed text, the id and content formatted
\* into it, and the lines of a rendered list
ToolReturn(text, todo_id, content, lines) ==
    [text |-> text, todo_id |-> todo_id, content |-> content, lines |-> lines]

NoToolCall ==
    [op |-> "none", args |-> Arguments(None, NoneStr, NoneStr, NoneStr, NoneList),
     result |-> ToolReturn("", None, NoneStr, <<>>)]

IdleLog ==
    /\ tool_call = NoToolCall
    /\ assigned = <<>>

\* One tool call: the storage it leaves, what it returned (a ModelRetry when
\* it was rejected), and the id storage.create handed out
ToolCall(op, args, out, result) ==
    /\ todos' = out.todos
    /\ next_id' = out.next_id
    /\ last' = [op |-> op, err |-> out.err, touched |-> Touched(todos, out.todos)]
    /\ tool_call' = [op |-> op, args |-> args,
                     result |-> IF out.err = "ok" THEN result
                                ELSE ToolReturn("ModelRetry", None, NoneStr, <<>>)]
    /\ assigned' = IF op = "create_todo" /\ out.err = "ok"
                   THEN Append(assigned, next_id) ELSE assigned
    /\ UNCHANGED notToolCall

CallIds == 1..MaxCallTodos
CallDepLists == SeqsUpTo(CallIds, 1) \cup {NoneList}

\* create_todo: f'Created todo {todo.id}: {todo.content}'
CreateTodoCall ==
    /\ next_id <= MaxCallTodos
    /\ \E content \in Contents, depends_on \in CallDepLists :
          ToolCall("create_todo", Arguments(None, content, "a1", NoneStr, depends_on),
                   create_todo_call(todos, next_id, content, "a1", depends_on),
                   ToolReturn("Created todo", next_id, content, <<>>))

\* update_todo: f'Updated todo {todo_id}.'
UpdateTodoCall ==
    /\ next_id > 1
    /\ \E todo_id \in CallIds, content \in {"c2", NoneStr}, active_form \in {"a2", NoneStr},
          status \in {"in_progress", "completed", NoneStr}, depends_on \in CallDepLists :
          ToolCall("update_todo",
                   Arguments(todo_id, content, active_form, status, depends_on),
                   update_todo_call(todos, next_id, todo_id, content, active_form, status,
                                    depends_on),
                   ToolReturn("Updated todo", todo_id, NoneStr, <<>>))

\* delete_todo: f'Deleted todo {todo_id}.'
DeleteTodoCall ==
    /\ next_id > 1
    /\ \E todo_id \in CallIds :
          ToolCall("delete_todo", Arguments(todo_id, NoneStr, NoneStr, NoneStr, NoneList),
                   delete_todo_call(todos, next_id, todo_id),
                   ToolReturn("Deleted todo", todo_id, NoneStr, <<>>))

InitTodoCalls == InitTodo /\ IdleLog

NextTodoCalls ==
    \/ CreateTodoCall
    \/ UpdateTodoCall
    \/ DeleteTodoCall

\* C31: a successful update_todo(id, ...) sets each of content, active_form,
\* status and depends_on for which an argument was supplied to that
\* argument, leaves every field not supplied as it was, leaves the todo
\* under its id, and leaves every other todo and the next id unchanged.
C31_UpdateChangesSuppliedFieldsOnly ==
    [][(tool_call'.op = "update_todo" /\ last'.err = "ok") =>
         LET a == tool_call'.args
             i == a.todo_id
         IN /\ i \in DOMAIN todos
            /\ DOMAIN todos' = DOMAIN todos
            /\ \A j \in DOMAIN todos \ {i} : todos'[j] = todos[j]
            /\ next_id' = next_id
            /\ todos'[i].content =
                  IF a.content = NoneStr THEN todos[i].content ELSE a.content
            /\ todos'[i].active_form =
                  IF a.active_form = NoneStr THEN todos[i].active_form ELSE a.active_form
            /\ todos'[i].status =
                  IF a.status = NoneStr THEN todos[i].status ELSE a.status
            /\ todos'[i].depends_on =
                  IF a.depends_on = NoneList THEN todos[i].depends_on ELSE a.depends_on
    ]_vars

\* C31's case: an update_todo that supplied a content and an empty
\* depends_on, and no status or active form, went through on a completed
\* todo that had a dependency and a changed active form
C31_Witness ==
    /\ tool_call.op = "update_todo"
    /\ last.err = "ok"
    /\ tool_call.args.content = "c2"
    /\ tool_call.args.depends_on = <<>>
    /\ tool_call.args.status = NoneStr
    /\ tool_call.args.active_form = NoneStr
    /\ last.touched = {tool_call.args.todo_id}
    /\ todos[tool_call.args.todo_id] = Todo("c2", "completed", "a2", <<>>)
    /\ Cardinality(DOMAIN todos) = 2

(***************************************************************************)
(* The compaction triggers on their own: should_compact over its inputs    *)
(***************************************************************************)
\* Input tokens that a response reports: none, below, at and above 0.7 of a
\* window of 10, and the same for a window of 128000
TokenValues == {0, 5, 7, 9, 50000, 89600, 90000}

\* context_window: unknown, or known
ContextWindows == {None, 10, 128000}

\* trigger_ratio as a fraction: 0.3 and 0.7
TriggerRatios == {<<3, 10>>, <<7, 10>>}

\* Histories of user prompts and text responses with their usage
RECURSIVE TriggerHistories(_)
TriggerHistories(n) ==
    IF n = 0 THEN {<<>>}
    ELSE LET shorter == TriggerHistories(n - 1)
         IN shorter \cup
            {Append(h, m) : h \in {x \in shorter : Len(x) = n - 1},
                            m \in IF n % 2 = 1 THEN {ModelRequest(<<UserPromptPart>>)}
                                  ELSE {ModelResponse(<<TextPart>>, t) : t \in TokenValues}}

\* should_compact(messages, ...) that, with the context window known, does
\* not trigger without a usage signal
should_compact_messages_no_fallback(messages, context_window, trigger_ratio, fallback_threshold) ==
    IF context_window # None
    THEN /\ last_input_tokens(messages) # None
         /\ last_input_tokens(messages) * trigger_ratio[2] > trigger_ratio[1] * context_window
    ELSE Len(messages) > fallback_threshold

\* should_compact(messages, ...) that fires at the ratio too
should_compact_messages_inclusive(messages, context_window, trigger_ratio, fallback_threshold) ==
    IF context_window # None /\ last_input_tokens(messages) # None
    THEN last_input_tokens(messages) * trigger_ratio[2] >= trigger_ratio[1] * context_window
    ELSE Len(messages) > fallback_threshold

\* should_compact(messages, context_window=, trigger_ratio=, fallback_threshold=)
\* of capabilities/compaction/_trigger.py, for any trigger_ratio
should_compact_messages_ratio(messages, context_window, trigger_ratio, fallback_threshold) ==
    IF context_window # None /\ last_input_tokens(messages) # None
    THEN last_input_tokens(messages) * trigger_ratio[2] > trigger_ratio[1] * context_window
    ELSE Len(messages) > fallback_threshold

\* should_compact(usage, context_window=, trigger_ratio=) of
\* compaction/_trigger.py, for any trigger_ratio
should_compact_usage_ratio(total_tokens, context_window, trigger_ratio) ==
    IF context_window # None /\ total_tokens > 0
    THEN total_tokens * trigger_ratio[2] > trigger_ratio[1] * context_window
    ELSE FALSE

\* The arguments of a should_compact call
InitTrigger ==
    /\ compaction \in [messages : TriggerHistories(MaxMsgs),
                       total_tokens : TokenValues,
                       context_window : ContextWindows,
                       trigger_ratio : TriggerRatios,
                       fallback_threshold : 0..MaxKeep]
    /\ compacted = NotCompacted

\* should_compact is called on the history (last-response accounting)
ShouldCompactMessages ==
    /\ compacted.pc = "new"
    /\ compacted' = [NotCompacted EXCEPT
                        !.pc = "messages",
                        !.triggered =
                            should_compact_messages_ratio(
                                compaction.messages, compaction.context_window,
                                compaction.trigger_ratio, compaction.fallback_threshold)]
    /\ UNCHANGED <<compaction, notCompact>>

\* should_compact is called on the run usage (cumulative accounting)
ShouldCompactUsage ==
    /\ compacted.pc = "new"
    /\ compacted' = [NotCompacted EXCEPT
                        !.pc = "usage",
                        !.triggered =
                            should_compact_usage_ratio(
                                compaction.total_tokens, compaction.context_window,
                                compaction.trigger_ratio)]
    /\ UNCHANGED <<compaction, notCompact>>

NextTrigger ==
    \/ ShouldCompactMessages
    \/ ShouldCompactUsage

\* The positions of the responses of a history that report input tokens
\* above zero
Signals(messages) ==
    {i \in 1..Len(messages) :
        messages[i].kind = "response" /\ messages[i].input_tokens > 0}

\* The usage signal of a history: what the last such response reports
Signal(messages) ==
    messages[CHOOSE i \in Signals(messages) : \A j \in Signals(messages) : j <= i].input_tokens

\* C16: should_compact(messages, context_window, trigger_ratio,
\* fallback_threshold) is, when context_window is known and a usage signal t
\* exists, t / context_window > trigger_ratio with strict inequality,
\* whatever the message count; otherwise it is
\* len(messages) > fallback_threshold, whatever the usage and trigger_ratio.
C16_TriggerByRatioOrCount ==
    compacted.pc = "messages" =>
        compacted.triggered =
            IF compaction.context_window # None /\ Signals(compaction.messages) # {}
            THEN Signal(compaction.messages) * compaction.trigger_ratio[2]
                     > compaction.trigger_ratio[1] * compaction.context_window
            ELSE Len(compaction.messages) > compaction.fallback_threshold

\* Usage exactly at the ratio (89600 of 128000 at 0.7) does not trigger, on a
\* history longer than the fallback threshold
C16_Witness ==
    /\ compacted.pc = "messages"
    /\ compaction.context_window = 128000
    /\ compaction.trigger_ratio = <<7, 10>>
    /\ Signals(compaction.messages) # {}
    /\ Signal(compaction.messages) = 89600
    /\ Len(compaction.messages) > compaction.fallback_threshold
    /\ ~compacted.triggered

\* C18 as stated: with zero observed usage no trigger fires, that is,
\* should_compact is false when cumulative total_tokens is 0 and is false
\* when no response of the history reports input tokens above 0.
C18_ZeroUsageNeverTriggers ==
    /\ compacted.pc = "usage" /\ compaction.total_tokens = 0 => ~compacted.triggered
    /\ compacted.pc = "messages" /\ Signals(compaction.messages) = {} => ~compacted.triggered

\* C18, amended: with cumulative total_tokens 0 should_compact is false; with
\* no response reporting input tokens above 0, last-response accounting
\* decides by message count, so should_compact is
\* len(messages) > fallback_threshold.
C18_ZeroUsageFallsBackToCount ==
    /\ compacted.pc = "usage" /\ compaction.total_tokens = 0 => ~compacted.triggered
    /\ compacted.pc = "messages" /\ Signals(compaction.messages) = {} =>
          compacted.triggered = (Len(compaction.messages) > compaction.fallback_threshold)

\* A history whose only responses report zero input tokens triggers by its
\* length, with the context window known
C18_Witness ==
    /\ compacted.pc = "messages"
    /\ compaction.context_window # None
    /\ Signals(compaction.messages) = {}
    /\ \E i \in 1..Len(compaction.messages) : compaction.messages[i].kind = "response"
    /\ compacted.triggered

(***************************************************************************)
(* last_input_tokens on its own                                            *)
(***************************************************************************)
\* A history handed to last_input_tokens
InitLastTokens ==
    /\ compaction \in [messages : TriggerHistories(MaxMsgs)]
    /\ compacted = NotCompacted

LastInputTokens ==
    /\ compacted.pc = "new"
    /\ compacted' = [pc |-> "returned",
                     input_tokens |-> last_input_tokens(compaction.messages)]
    /\ UNCHANGED <<compaction, notCompact>>

NextLastTokens == LastInputTokens

\* The positions of the responses of a history
ResponsePositions(messages) == {i \in 1..Len(messages) : messages[i].kind = "response"}

\* The most recent response of a history that has one
LastResponse(messages) ==
    messages[CHOOSE i \in ResponsePositions(messages) : \A j \in ResponsePositions(messages) : j <= i]

\* C35: last_input_tokens(messages) is the input_tokens of the most recent
\* ModelResponse of the history, and None when the history holds no response
\* or when that most recent response reports zero input tokens.
C35_InputTokensOfMostRecentResponse ==
    compacted.pc = "returned" =>
        compacted.input_tokens =
            IF ResponsePositions(compaction.messages) = {} THEN None
            ELSE IF LastResponse(compaction.messages).input_tokens = 0 THEN None
                 ELSE LastResponse(compaction.messages).input_tokens

\* What last_input_tokens returns: the input_tokens of the most recent
\* response that reports more than zero, None when there is none
InputTokensOfMostRecentSignal ==
    compacted.pc = "returned" =>
        compacted.input_tokens =
            IF Signals(compaction.messages) = {} THEN None
            ELSE Signal(compaction.messages)

(***************************************************************************)
(* What the compaction policies decide and return                          *)
(***************************************************************************)
\* Whether a policy has no usage signal: no run usage yet for the policies
\* that read ctx.usage, no response reporting input tokens for those that
\* read the history
NoUsageSignal ==
    IF compaction.policy \in {"ObservationMaskingProcessor", "MaskedSummarizationProcessor"}
    THEN Signals(compaction.messages) = {}
    ELSE compaction.total_tokens = 0

\* The message-count threshold of a policy: keep_last for masking,
\* trigger_threshold where summarization is involved
CountThreshold ==
    IF compaction.policy \in {"ObservationMaskingCapability", "ObservationMaskingProcessor"}
    THEN compaction.keep_last
    ELSE compaction.trigger_threshold

\* C17: a compaction policy whose context window is unknown, or that has no
\* usage signal yet, compacts if and only if len(messages) exceeds its
\* message-count threshold.
C17_FallbackToMessageCount ==
    (/\ compacted.pc = "done"
     /\ compaction.context_window = None \/ NoUsageSignal) =>
        (compacted.triggered <=> Len(compaction.messages) > CountThreshold)

\* C19: for every policy and keep_last, a history that is non-empty and ends
\* with a request comes back non-empty and ending with a request, whether or
\* not compaction triggered.
C19_ResultEndsWithRequest ==
    (/\ compacted.pc = "done"
     /\ compaction.messages # <<>>
     /\ compaction.messages[Len(compaction.messages)].kind = "request") =>
        /\ compacted.messages # <<>>
        /\ compacted.messages[Len(compacted.messages)].kind = "request"

\* A summarization with keep_last 0 of a history of five messages returns the
\* summary message alone
C19_Witness ==
    /\ compacted.pc = "done"
    /\ compacted.triggered
    /\ compaction.policy = "SummarizationCapability"
    /\ compaction.keep_last = 0
    /\ Len(compaction.messages) = 5
    /\ Len(compacted.messages) = 1

\* C20: a triggered summarization of n messages returns one new leading
\* request holding a single system-prompt part with the summary, followed by
\* the last keep_last messages of the input (all n when keep_last >= n),
\* unchanged and in order; the secondary agent is called once, with the
\* transcript of exactly the messages before that window.
C20_SummaryThenKeepLastWindow ==
    (/\ compacted.pc = "done"
     /\ compacted.triggered
     /\ compaction.policy \in {"SummarizationCapability", "SummarizationProcessor"}) =>
        LET n == Len(compaction.messages)
            window == IF compaction.keep_last < n THEN compaction.keep_last ELSE n
        IN /\ Len(compacted.messages) = window + 1
           /\ \E summary \in Summaries :
                 compacted.messages[1] = ModelRequest(<<SystemPromptPart(summary)>>)
           /\ SubSeq(compacted.messages, 2, window + 1)
                 = SubSeq(compaction.messages, n - window + 1, n)
           /\ compacted.prompts
                 = <<format_messages(SubSeq(compaction.messages, 1, n - window))>>

\* C36: a triggered summarization returns a history no longer than the one
\* it was given and runs the secondary agent on the transcript of at least
\* one message, for every keep_last >= 0 and every history length
\* (keep_last at or above the length included).
C36_SummaryNeverGrowsHistory ==
    (/\ compacted.pc = "done"
     /\ compacted.triggered
     /\ compaction.policy \in {"SummarizationCapability", "SummarizationProcessor",
                               "MaskedSummarizationProcessor"}) =>
        /\ Len(compacted.messages) <= Len(compaction.messages)
        /\ Len(compacted.prompts) = 1
        /\ compacted.prompts[1] # format_messages(<<>>)

\* With keep_last below the length of the history the result is the summary
\* message and keep_last messages, no longer than the input, after one call
\* of the secondary agent
SummaryShrinksWhenWindowIsShorter ==
    (/\ compacted.pc = "done"
     /\ compacted.triggered
     /\ compaction.keep_last < Len(compaction.messages)
     /\ compaction.policy \in {"SummarizationCapability", "SummarizationProcessor",
                               "MaskedSummarizationProcessor"}) =>
        /\ Len(compacted.messages) = compaction.keep_last + 1
        /\ Len(compacted.messages) <= Len(compaction.messages)
        /\ Len(compacted.prompts) = 1

\* The first n messages of a history with every tool return and retry
\* prompt of a request masked
MaskedPrefix(messages, n) == [i \in 1..n |-> MaskMessage(messages[i])]

\* C21: a triggered masked summarization masks the messages older than
\* keep_last, calls the secondary agent once with the transcript of those
\* masked messages, and returns [summary_message, *recent]: the older
\* messages are replaced by the one summary message.
C21_MaskThenSummarize ==
    (/\ compacted.pc = "done"
     /\ compacted.triggered
     /\ compaction.policy \in {"MaskedSummarizationCapability",
                               "MaskedSummarizationProcessor"}) =>
        LET n == Len(compaction.messages)
            window == IF compaction.keep_last < n THEN compaction.keep_last ELSE n
        IN /\ compacted.prompts
                 = <<format_messages(MaskedPrefix(compaction.messages, n - window))>>
           /\ Len(compacted.messages) = window + 1
           /\ \E summary \in Summaries :
                 compacted.messages[1] = ModelRequest(<<SystemPromptPart(summary)>>)
           /\ SubSeq(compacted.messages, 2, window + 1)
                 = SubSeq(compaction.messages, n - window + 1, n)

\* C22: a triggered masking returns as many messages as it was given, of
\* the same kinds in the same order, each with as many parts of the same
\* kinds and tool-call ids in the same order; the content of a part is the
\* placeholder when it is a tool-return or retry-prompt part of a request
\* before the keep_last window, and the content it had in every other case.
C22_MaskingChangesOnlyOldReturns ==
    (/\ compacted.pc = "done"
     /\ compacted.triggered
     /\ compaction.policy \in {"ObservationMaskingCapability", "ObservationMaskingProcessor"}) =>
        LET n == Len(compaction.messages)
            window == IF compaction.keep_last < n THEN compaction.keep_last ELSE n
        IN /\ Len(compacted.messages) = n
           /\ \A i \in 1..n :
                 LET given == compaction.messages[i]
                     got == compacted.messages[i]
                 IN /\ got.kind = given.kind
                    /\ Len(got.parts) = Len(given.parts)
                    /\ \A j \in 1..Len(given.parts) :
                          /\ got.parts[j].part_kind = given.parts[j].part_kind
                          /\ got.parts[j].tool_call_id = given.parts[j].tool_call_id
                          /\ got.parts[j].content =
                                IF /\ i <= n - window
                                   /\ given.kind = "request"
                                   /\ given.parts[j].part_kind \in {"tool-return", "retry-prompt"}
                                THEN placeholder
                                ELSE given.parts[j].content

(***************************************************************************)
(* A run under a summarization policy with cumulative run usage: each      *)
(* model request passes the policy, then the model answers and the run     *)
(* usage grows by the usage of the response                                *)
(***************************************************************************)
\* model requests of one run
MaxRequests == 4

\* input plus output tokens a response may report
ResponseTokens == {0, 4}

\* A usage that holds the tokens of the last response only
incr_last(total_tokens, response_tokens) == response_tokens

\* RunUsage.incr(response.usage): the counters add up
incr(total_tokens, response_tokens) == total_tokens + response_tokens

\* A run about to make its first model request, with no usage yet
InitRunUsage ==
    /\ compaction \in [policy : {"SummarizationCapability", "SummarizationProcessor"},
                       keep_last : {0, 1, 3},
                       trigger_threshold : {2},
                       context_window : {None, 10},
                       total_tokens : {0},
                       messages : {<<ModelRequest(<<UserPromptPart>>)>>}]
    /\ compacted = [pc |-> "before", messages |-> <<>>, triggered |-> <<>>, prompts |-> <<>>]

\* before_model_request of the capability, or the history processor, on the
\* history of the request about to be made: the trigger on ctx.usage, and the
\* summary when it fires; the run goes on with the history returned
PolicyBeforeRequest ==
    /\ compacted.pc = "before"
    /\ Len(compacted.triggered) < MaxRequests
    /\ \E summary \in {"s1"} :
          LET r == IF compaction.policy = "SummarizationCapability"
                   THEN summarize_messages(compaction, compaction, compaction.messages, summary)
                   ELSE SummarizationProcessor_call(compaction, compaction,
                                                    compaction.messages, summary)
          IN /\ compacted' = [pc |-> "request", messages |-> r.messages,
                              triggered |-> Append(compacted.triggered, r.triggered),
                              prompts |-> compacted.prompts \o r.prompts]
             /\ compaction' = [compaction EXCEPT !.messages = r.messages]
    /\ UNCHANGED notCompact

\* The model answers: the response joins the history with the request that
\* follows it, and the run usage takes in the usage of the response
ModelAnswers ==
    /\ compacted.pc = "request"
    /\ \E tokens \in ResponseTokens :
          compaction' = [compaction EXCEPT
                            !.total_tokens = incr(@, tokens),
                            !.messages = @ \o <<ModelResponse(<<TextPart>>, tokens),
                                                ModelRequest(<<UserPromptPart>>)>>]
    /\ compacted' = [compacted EXCEPT !.pc = "before"]
    /\ UNCHANGED notCompact

NextRunUsage ==
    \/ PolicyBeforeRequest
    \/ ModelAnswers

\* How many of the first k requests triggered
RECURSIVE TriggeredAmong(_, _)
TriggeredAmong(decisions, k) ==
    IF k = 0 THEN 0
    ELSE (IF decisions[k] THEN 1 ELSE 0) + TriggeredAmong(decisions, k - 1)

\* C37: with cumulative run usage the trigger is sticky within a run: the
\* run usage never decreases and the policy does not change it, so after a
\* model request at which should_compact(usage) was true it is true at
\* every later request of the run, and the summarization runs the secondary
\* agent once at each of them.
C37_TriggerSticksWithinRun ==
    [][/\ compaction'.total_tokens >= compaction.total_tokens
       /\ compacted.pc = "before" => compaction'.total_tokens = compaction.total_tokens
       /\ \A i, j \in 1..Len(compacted'.triggered) :
             (i < j /\ compacted'.triggered[i]) => compacted'.triggered[j]
       /\ Len(compacted'.prompts)
             = TriggeredAmong(compacted'.triggered, Len(compacted'.triggered))
    ]_vars

\* C37's case: the third request of a run is the first to trigger, the
\* fourth triggers again, and the secondary agent has run twice
C37_Witness ==
    /\ compacted.triggered = <<FALSE, FALSE, TRUE, TRUE>>
    /\ Len(compacted.prompts) = 2
    /\ compaction.total_tokens = 8

(***************************************************************************)
(* Masking on message objects: the caller's list holds references to       *)
(* ModelMessage objects, copy.deepcopy builds new objects, and the masking *)
(* loop assigns part.content on the objects of `older`                     *)
(***************************************************************************)

\* The values a list of references holds
Deref(objects, refs) == [i \in 1..Len(refs) |-> objects[refs[i]]]

\* A slice taken without a copy of its objects
same_objects(objects, refs) == [objects |-> objects, refs |-> refs]

\* copy.deepcopy(refs): one new object for each object of the list
deepcopy(objects, refs) ==
    [objects |-> objects \o Deref(objects, refs),
     refs |-> [i \in 1..Len(refs) |-> Len(objects) + i]]

\* cutoff = len(messages) - keep_last; older = copy.deepcopy(messages[:cutoff]);
\* the loop over older; [*older, *messages[cutoff:]]
MaskOlderObjects(objects, messages, keep_last) ==
    LET cutoff == Len(messages) - keep_last
        copy == deepcopy(objects, PySliceTo(messages, cutoff))
        older == copy.refs
        inOlder(a) == \E i \in 1..Len(older) : older[i] = a
    IN [objects |-> [a \in 1..Len(copy.objects) |->
                        IF inOlder(a) THEN MaskMessage(copy.objects[a])
                        ELSE copy.objects[a]],
        messages |-> older \o PySliceFrom(messages, cutoff),
        triggered |-> TRUE]

\* ObservationMaskingCapability._mask_messages on a list of objects
mask_messages_objects(self, ctx, objects, messages) ==
    IF ~should_compact_usage(ctx.total_tokens, ctx.context_window)
    THEN [objects |-> objects, messages |-> messages, triggered |-> FALSE]
    ELSE MaskOlderObjects(objects, messages, self.keep_last)

\* ObservationMaskingProcessor.__call__ on a list of objects
ObservationMaskingProcessor_call_objects(self, ctx, objects, messages) ==
    IF ~should_compact_messages(Deref(objects, messages), ctx.context_window, self.keep_last)
    THEN [objects |-> objects, messages |-> messages, triggered |-> FALSE]
    ELSE MaskOlderObjects(objects, messages, self.keep_last)

\* Calls of one masking policy a run makes with no message added in between
MaxMaskCalls == 2

\* The caller's history is a list of the objects 1..n; nothing is returned yet
InitMasking ==
    /\ compaction \in [policy : {"ObservationMaskingCapability", "ObservationMaskingProcessor"},
                       keep_last : 0..MaxKeep,
                       context_window : {None, 10},
                       total_tokens : {0, 8},
                       messages : Histories(MaxMsgs)]
    /\ compacted = [calls |-> 0,
                    objects |-> compaction.messages,
                    history |-> [i \in 1..Len(compaction.messages) |-> i],
                    passed |-> <<>>,
                    returned |-> [i \in 1..Len(compaction.messages) |-> i],
                    before |-> <<>>,
                    triggered |-> FALSE]

\* The call's effect: the list passed is the caller's history on the first
\* call and the list the call before returned on the next
MaskingReturns(r) ==
    /\ compacted' = [compacted EXCEPT
                        !.calls = @ + 1,
                        !.objects = r.objects,
                        !.passed = compacted.returned,
                        !.returned = r.messages,
                        !.before = Deref(compacted.objects, compacted.returned),
                        !.triggered = r.triggered]
    /\ UNCHANGED <<compaction, notCompact>>

\* before_model_request of the capability
MaskingCapabilityCall ==
    /\ compaction.policy = "ObservationMaskingCapability"
    /\ compacted.calls < MaxMaskCalls
    /\ MaskingReturns(mask_messages_objects(compaction, compaction,
                                            compacted.objects, compacted.returned))

\* __call__ of the history processor
MaskingProcessorCall ==
    /\ compaction.policy = "ObservationMaskingProcessor"
    /\ compacted.calls < MaxMaskCalls
    /\ MaskingReturns(ObservationMaskingProcessor_call_objects(compaction, compaction,
                                            compacted.objects, compacted.returned))

NextMasking ==
    \/ MaskingCapabilityCall
    \/ MaskingProcessorCall

\* C23: after a masking call returns, the list that was passed in has the
\* length it had and every message object in it holds the content it held
\* before the call; the caller's own history is as long as, and holds what,
\* it did before the first call.
C23_MaskingLeavesCallersHistory ==
    compacted.calls > 0 =>
        /\ Deref(compacted.objects, compacted.passed) = compacted.before
        /\ Deref(compacted.objects, compacted.history) = compaction.messages

\* A call that masked a part: the returned list differs from the list passed
C23_Witness ==
    /\ compacted.calls = 1
    /\ compacted.triggered
    /\ Deref(compacted.objects, compacted.returned) # compacted.before
    /\ Deref(compacted.objects, compacted.passed) = compaction.messages

\* C24: with the same keep_last, placeholder and trigger outcome and no
\* message added in between, masking what a masking returned gives a history
\* equal to the one it was given.
C24_MaskingIdempotent ==
    compacted.calls = 2 =>
        Deref(compacted.objects, compacted.returned) = compacted.before

\* The second of two triggered calls, the first of which masked a part
C24_Witness ==
    /\ compacted.calls = 2
    /\ compacted.triggered
    /\ compacted.before # compaction.messages
    /\ Deref(compacted.objects, compacted.returned) = compacted.before

(***************************************************************************)
(* CombinedCapability.get_instructions / get_model_settings / get_toolset  *)
(* / get_builtin_tools                                                     *)
(***************************************************************************)

\* The children of the CombinedCapability that is queried
MaxChildren == 3

\* Instructions: None, one str, or a sequence of them
NoInstructions == [type |-> "none", value |-> <<>>]
StrInstructions(text) == [type |-> "str", value |-> <<text>>]
ListInstructions(texts) == [type |-> "list", value |-> texts]

\* ModelSettings: a dict, by its items <<field, value>>, or None
NoSettings == [none |-> TRUE, items |-> {}]
ModelSettings(items) == [none |-> FALSE, items |-> items]
Fields(settings) == {item[1] : item \in settings.items}
\* bool(settings)
Truthy(settings) == ~settings.none /\ settings.items # {}

\* An AbstractToolset, by name, or None; CombinedToolset(toolsets)
NoToolset == [kind |-> "none", name |-> "", toolsets |-> <<>>]
FunctionToolset(name) == [kind |-> "function", name |-> name, toolsets |-> <<>>]
CombinedToolset(toolsets) == [kind |-> "combined", name |-> "", toolsets |-> toolsets]

\* What a child capability answers to the four queries: nothing, as
\* AbstractCapability does, but for the queries its class overrides
AbstractCapability ==
    [instructions |-> NoInstructions, model_settings |-> NoSettings,
     toolset |-> NoToolset, builtin_tools |-> <<>>]
Children ==
    {AbstractCapability}
    \cup {[AbstractCapability EXCEPT !.instructions = i] :
             i \in {StrInstructions("brief"), ListInstructions(<<"kind", "exact">>),
                    ListInstructions(<<>>)}}
    \cup {[AbstractCapability EXCEPT !.model_settings = m] :
             m \in {ModelSettings({}), ModelSettings({<<"max_tokens", 1>>}),
                    ModelSettings({<<"max_tokens", 2>>, <<"temperature", 1>>})}}
    \cup {[AbstractCapability EXCEPT !.toolset = FunctionToolset(t)] :
             t \in {"todos", "search"}}
    \cup {[AbstractCapability EXCEPT !.builtin_tools = b] :
             b \in {<<"code_execution">>, <<"memory", "code_execution">>}}
    \cup {[AbstractCapability EXCEPT !.toolset = FunctionToolset("duckduckgo"),
                                     !.builtin_tools = <<"web_search">>]}

\* normalize_instructions(instructions)
normalize_instructions(instructions) ==
    IF instructions.type = "none" THEN <<>>
    ELSE IF instructions.type = "str" THEN <<instructions.value[1]>>
    ELSE instructions.value

\* merge_model_settings(base, overrides): base | overrides when both hold a
\* field, else base or overrides
merge_model_settings(base, overrides) ==
    IF Truthy(base) /\ Truthy(overrides)
    THEN ModelSettings({item \in base.items : item[1] \notin Fields(overrides)}
                           \cup overrides.items)
    ELSE IF Truthy(base) THEN base ELSE overrides

\* get_instructions without the `or None`
get_instructions_list(self) ==
    LET RECURSIVE loop(_, _)
        loop(instructions, i) ==
            IF i > Len(self.capabilities) THEN instructions
            ELSE loop(instructions \o normalize_instructions(self.capabilities[i].instructions),
                      i + 1)
    IN ListInstructions(loop(<<>>, 1))

\* CombinedCapability.get_instructions
get_instructions(self) ==
    LET RECURSIVE loop(_, _)
        loop(instructions, i) ==
            IF i > Len(self.capabilities) THEN instructions
            ELSE loop(instructions \o normalize_instructions(self.capabilities[i].instructions),
                      i + 1)
        instructions == loop(<<>>, 1)
    IN IF instructions = <<>> THEN NoInstructions ELSE ListInstructions(instructions)

\* CombinedCapability.get_model_settings
get_model_settings(self) ==
    LET RECURSIVE loop(_, _)
        loop(model_settings, i) ==
            IF i > Len(self.capabilities) THEN model_settings
            ELSE loop(merge_model_settings(model_settings,
                                           self.capabilities[i].model_settings), i + 1)
        model_settings == loop(ModelSettings({}), 1)
    IN IF Truthy(model_settings) THEN model_settings ELSE NoSettings

\* CombinedCapability.get_toolset
get_toolset(self) ==
    LET RECURSIVE loop(_, _)
        loop(toolsets, i) ==
            IF i > Len(self.capabilities) THEN toolsets
            ELSE loop(IF self.capabilities[i].toolset.kind # "none"
                      THEN Append(toolsets, self.capabilities[i].toolset)
                      ELSE toolsets, i + 1)
        toolsets == loop(<<>>, 1)
    IN IF toolsets # <<>> THEN CombinedToolset(toolsets) ELSE NoToolset

\* CombinedCapability.get_builtin_tools
get_builtin_tools(self) ==
    LET RECURSIVE loop(_, _)
        loop(builtin_tools, i) ==
            IF i > Len(self.capabilities) THEN builtin_tools
            ELSE loop(builtin_tools \o self.capabilities[i].builtin_tools, i + 1)
    IN loop(<<>>, 1)

\* A CombinedCapability over up to MaxChildren children, not yet queried
InitQueries ==
    /\ \E n \in 0..MaxChildren : capabilities \in [1..n -> Children]
    /\ request = NoRequest

Answered(query, result) ==
    /\ request' = [NoRequest EXCEPT !.pc = query, !.returned = result]
    /\ UNCHANGED <<capabilities, notCombined>>

GetInstructions ==
    /\ request.pc = "new"
    /\ Answered("get_instructions", get_instructions([capabilities |-> capabilities]))

GetModelSettings ==
    /\ request.pc = "new"
    /\ Answered("get_model_settings", get_model_settings([capabilities |-> capabilities]))

GetToolset ==
    /\ request.pc = "new"
    /\ Answered("get_toolset", get_toolset([capabilities |-> capabilities]))

GetBuiltinTools ==
    /\ request.pc = "new"
    /\ Answered("get_builtin_tools", get_builtin_tools([capabilities |-> capabilities]))

NextQueries ==
    \/ GetInstructions
    \/ GetModelSettings
    \/ GetToolset
    \/ GetBuiltinTools

\* The lists of the children, one after the other in child order
RECURSIVE Concatenation(_)
Concatenation(lists) ==
    IF lists = <<>> THEN <<>> ELSE Head(lists) \o Concatenation(Tail(lists))

\* The children that set a field, and the last of them
Setting(field) ==
    {i \in 1..Len(capabilities) : field \in Fields(capabilities[i].model_settings)}
LastSetting(field) == CHOOSE i \in Setting(field) : \A j \in Setting(field) : j <= i
ValueOf(settings, field) == (CHOOSE item \in settings.items : item[1] = field)[2]

\* The children with a toolset, in child order
RECURSIVE NonNullToolsets(_)
NonNullToolsets(children) ==
    IF children = <<>> THEN <<>>
    ELSE (IF Head(children).toolset = NoToolset THEN <<>> ELSE <<Head(children).toolset>>)
             \o NonNullToolsets(Tail(children))

\* C26: get_instructions is the concatenation of the children's normalized
\* instruction lists in child order, or None when it is empty;
\* get_builtin_tools is the concatenation of the children's builtin tools;
\* get_model_settings holds exactly the fields some child sets, each with the
\* value of the last child that sets it, or is None when no field is set;
\* get_toolset is one combined toolset of the children's non-null toolsets
\* in child order, or None when there is none.
C26_CombinedQueriesFoldInChildOrder ==
    LET n == Len(capabilities)
        normalized == [i \in 1..n |->
                          IF capabilities[i].instructions.type = "none" THEN <<>>
                          ELSE capabilities[i].instructions.value]
        fields == UNION {Fields(capabilities[i].model_settings) : i \in 1..n}
    IN /\ request.pc = "get_instructions" =>
              IF Concatenation(normalized) = <<>>
              THEN request.returned = NoInstructions
              ELSE request.returned = ListInstructions(Concatenation(normalized))
       /\ request.pc = "get_builtin_tools" =>
              request.returned = Concatenation([i \in 1..n |-> capabilities[i].builtin_tools])
       /\ request.pc = "get_model_settings" =>
              IF fields = {}
              THEN request.returned = NoSettings
              ELSE /\ ~request.returned.none
                   /\ Fields(request.returned) = fields
                   /\ Cardinality(request.returned.items) = Cardinality(fields)
                   /\ \A f \in fields :
                         ValueOf(request.returned, f) =
                             ValueOf(capabilities[LastSetting(f)].model_settings, f)
       /\ request.pc = "get_toolset" =>
              IF NonNullToolsets(capabilities) = <<>>
              THEN request.returned = NoToolset
              ELSE request.returned = CombinedToolset(NonNullToolsets(capabilities))

\* Two children set max_tokens and the merged settings hold the second's
\* value next to the field only the first sets
C26_Witness ==
    /\ request.pc = "get_model_settings"
    /\ Len(capabilities) = 3
    /\ capabilities[1].model_settings = ModelSettings({<<"max_tokens", 2>>, <<"temperature", 1>>})
    /\ capabilities[2].model_settings = NoSettings
    /\ capabilities[3].model_settings = ModelSettings({<<"max_tokens", 1>>})
    /\ request.returned = ModelSettings({<<"max_tokens", 1>>, <<"temperature", 1>>})

(***************************************************************************)
(* HistoryProcessorCapability.before_model_request                         *)
(***************************************************************************)

\* The longest history a processor hands back
MaxProcessed == 3

\* now_utc(): a time later than every timestamp a message carries
now_utc == 2

\* Messages as the checks see them: their class and their timestamp
StampedRequest(timestamp) == [kind |-> "request", timestamp |-> timestamp]
StampedResponse == [kind |-> "response", timestamp |-> 1]
StampedMessages == {StampedRequest(None), StampedRequest(1), StampedResponse}

\* What a processor may hand back: any list of messages
RECURSIVE ProcessedHistories(_)
ProcessedHistories(n) ==
    IF n = 0 THEN {<<>>}
    ELSE LET shorter == ProcessedHistories(n - 1)
         IN shorter \cup {Append(h, m) : h \in {x \in shorter : Len(x) = n - 1},
                                         m \in StampedMessages}

\* messages[-1]
PyLast(messages) == messages[Len(messages)]

UserError(message) == [raised |-> "UserError", message |-> message]

\* The arguments the branch taken calls the processor with, and whether the
\* call goes through run_in_executor
ProcessorCall(processor) ==
    [args |-> IF processor.takes_ctx THEN <<"ctx", "messages">> ELSE <<"messages">>,
     in_executor |-> ~processor.is_async]

\* A before_model_request that closes a history left open by the processor
history_before_model_request_repair(self, messages, model_settings, model_request_parameters) ==
    LET processed == self.processor.returns
        repaired == IF processed = <<>> \/ PyLast(processed).kind # "request"
                    THEN Append(processed, StampedRequest(now_utc))
                    ELSE processed
        stamped == [repaired EXCEPT ![Len(repaired)].timestamp =
                                        IF @ = None THEN now_utc ELSE @]
    IN [raised |-> NoneStr,
        returned |-> <<stamped, model_settings, model_request_parameters>>,
        call |-> ProcessorCall(self.processor)]

\* HistoryProcessorCapability.before_model_request: the processor's call,
\* the two checks, the timestamp of the last request, the triple returned
history_before_model_request(self, messages, model_settings, model_request_parameters) ==
    LET processed == self.processor.returns
    IN IF Len(processed) = 0
       THEN UserError("Processed history cannot be empty.")
       ELSE IF PyLast(processed).kind # "request"
       THEN UserError("Processed history must end with a ModelRequest.")
       ELSE [raised |-> NoneStr,
             returned |-> <<[processed EXCEPT ![Len(processed)].timestamp =
                                                 IF @ = None THEN now_utc ELSE @],
                            model_settings, model_request_parameters>>,
             call |-> ProcessorCall(self.processor)]

\* A capability wrapping a processor of one of the four call shapes, which
\* hands back some history, and the arguments of one before_model_request
InitHistory ==
    /\ compaction \in [processor : [is_async : BOOLEAN, takes_ctx : BOOLEAN,
                                    returns : ProcessedHistories(MaxProcessed)],
                       messages : {h \in ProcessedHistories(1) : h # <<>>},
                       model_settings : {"settings1", "settings2"},
                       model_request_parameters : {"params1", "params2"}]
    /\ compacted = [pc |-> "new"]

HistoryBeforeModelRequest ==
    /\ compacted.pc = "new"
    /\ compacted' = [pc |-> "done",
                     outcome |-> history_before_model_request(
                                     compaction, compaction.messages,
                                     compaction.model_settings,
                                     compaction.model_request_parameters)]
    /\ UNCHANGED <<compaction, notCompact>>

NextHistory == HistoryBeforeModelRequest

MaxKeys == 3

\* Python values as the validators see them
PyNone == [type |-> "none", repr |-> "None", items |-> <<>>]
PyStr(text) == [type |-> "str", repr |-> text, items |-> <<>>]
PyInt(digits) == [type |-> "int", repr |-> digits, items |-> <<>>]
PyList(items) == [type |-> "list", repr |-> "", items |-> items]
PyTuple(items) == [type |-> "tuple", repr |-> "", items |-> items]
\* a dict, by its items <<key, value>> in insertion order
PyDict(items) == [type |-> "dict", repr |-> "", items |-> items]

DictKeys(dict) == {dict.items[i][1] : i \in 1..Len(dict.items)}
Get(dict, key) == (CHOOSE i \in 1..Len(dict.items) : dict.items[i][1] = key)
ItemValue(dict, key) == dict.items[Get(dict, key)][2]
StrKeyed(dict) == \A key \in DictKeys(dict) : key.type = "str"

\* The values a name is mapped to in the short forms
ArgumentValues ==
    {PyNone, PyStr("hello"), PyInt("42"),
     PyList(<<PyInt("1"), PyInt("2"), PyInt("3")>>), PyList(<<PyInt("5")>>),
     PyDict(<<<<PyStr("a"), PyInt("1")>>, <<PyStr("b"), PyInt("2")>>>>),
     PyDict(<<>>),
     PyDict(<<<<PyInt("1"), PyStr("x")>>>>)}

MappingKeys ==
    {PyStr("MyClass"), PyStr("Other"), PyStr("name"), PyStr("arguments"), PyInt("7")}

\* No key twice in the items of a dict
DistinctKeys(items) == \A i, j \in 1..Len(items) : items[i][1] = items[j][1] => i = j

NamedSpec(name, arguments) == [raised |-> NoneStr, name |-> name, arguments |-> arguments]
ValidationError == [raised |-> "ValidationError", name |-> "", arguments |-> PyNone]
NotCalled == [raised |-> "not called", name |-> "", arguments |-> PyNone]

\* handler(value): the validation of the fields name: str and
\* arguments: None | tuple[Any] | dict[str, Any], both required
handler(value) ==
    IF /\ value.type = "dict"
       /\ PyStr("name") \in DictKeys(value)
       /\ PyStr("arguments") \in DictKeys(value)
       /\ ItemValue(value, PyStr("name")).type = "str"
       /\ LET arguments == ItemValue(value, PyStr("arguments"))
          IN \/ arguments.type = "none"
             \/ arguments.type \in {"tuple", "list"} /\ Len(arguments.items) = 1
             \/ arguments.type = "dict" /\ StrKeyed(arguments)
    THEN LET arguments == ItemValue(value, PyStr("arguments"))
         IN NamedSpec(ItemValue(value, PyStr("name")).repr,
                      IF arguments.type = "list" THEN PyTuple(arguments.items)
                      ELSE arguments)
    ELSE ValidationError

\* _SerializedNamedSpec.model_validate(value): the root is a str or a
\* dict[str, Any], and enforce_one_key
SerializedNamedSpecValid(value) ==
    \/ value.type = "str"
    \/ value.type = "dict" /\ StrKeyed(value) /\ Len(value.items) = 1

\* _SerializedNamedSpec._name
SerializedName(root) ==
    IF root.type = "str" THEN root.repr ELSE root.items[1][1].repr

\* An _args that spreads a list into as many positional arguments
SerializedArgsSpread(root) ==
    IF root.type = "str" THEN PyNone
    ELSE LET value == root.items[1][2]
         IN IF value.type = "dict" /\ StrKeyed(value) THEN value
            ELSE IF value.type = "list" THEN PyTuple(value.items)
            ELSE PyTuple(<<value>>)

\* _SerializedNamedSpec._args
SerializedArgs(root) ==
    IF root.type = "str" THEN PyNone
    ELSE LET value == root.items[1][2]
         IN IF value.type = "dict" /\ StrKeyed(value) THEN value
            ELSE PyTuple(<<value>>)

\* _SerializedNamedSpec.to_named_spec: NamedSpec(name=..., arguments=...)
\* validates the two fields
to_named_spec(root) ==
    handler(PyDict(<<<<PyStr("name"), PyStr(SerializedName(root))>>,
                     <<PyStr("arguments"), SerializedArgs(root)>>>>))

\* NamedSpec.deserialize
deserialize(value) ==
    IF handler(value).raised = NoneStr THEN handler(value)
    ELSE IF ~SerializedNamedSpecValid(value) THEN ValidationError
    ELSE to_named_spec(value)

IdleSpec ==
    /\ spec_input = PyNone
    /\ spec_output = NotCalled

\* A value handed to NamedSpec.model_validate: a scalar, a list, or a
\* mapping of up to MaxKeys keys
InitNamedSpec ==
    /\ \/ spec_input \in ArgumentValues \cup {PyStr("MyClass")}
       \/ \E n \in 0..MaxKeys :
              \E items \in [1..n -> MappingKeys \X ArgumentValues] :
                  DistinctKeys(items) /\ spec_input = PyDict(items)
    /\ spec_output = NotCalled

\* NamedSpec.model_validate(value)
ModelValidate ==
    /\ spec_output = NotCalled
    /\ spec_output' = deserialize(spec_input)
    /\ UNCHANGED <<spec_input, notSpec>>

NextNamedSpec == ModelValidate

\* A mapping with a str name and an arguments entry that is None, a sequence
\* of one element or a string-keyed mapping
LongForm(value) ==
    /\ {PyStr("name"), PyStr("arguments")} \subseteq DictKeys(value)
    /\ \E i, j \in 1..Len(value.items) :
          /\ value.items[i][1] = PyStr("name") /\ value.items[i][2].type = "str"
          /\ value.items[j][1] = PyStr("arguments")
          /\ \/ value.items[j][2].type = "none"
             \/ value.items[j][2].type = "list" /\ Len(value.items[j][2].items) = 1
             \/ value.items[j][2].type = "dict" /\
                   \A k \in 1..Len(value.items[j][2].items) :
                       value.items[j][2].items[k][1].type = "str"

\* What the three short forms give
ShortFormsRead ==
    /\ spec_input.type = "str" =>
          spec_output = NamedSpec(spec_input.repr, PyNone)
    /\ (spec_input.type = "dict" /\ Len(spec_input.items) = 1
            /\ spec_input.items[1][1].type = "str") =>
          LET v == spec_input.items[1][2]
          IN /\ spec_output.raised = NoneStr
             /\ spec_output.name = spec_input.items[1][1].repr
             /\ IF v.type = "dict" /\ \A k \in 1..Len(v.items) : v.items[k][1].type = "str"
                THEN spec_output.arguments = v
                ELSE /\ spec_output.arguments.type = "tuple"
                     /\ spec_output.arguments.items = <<v>>
    /\ (spec_input.type = "dict" /\ Len(spec_input.items) = 0) =>
          spec_output.raised = "ValidationError"

\* C27 as stated: a bare string gives arguments None; a one-key mapping
\* {name: v} gives keyword arguments v when v is a string-keyed mapping and
\* otherwise the one positional argument (v,), a list not being spread; a
\* mapping with no key or with two or more keys is rejected.
C27_ManyKeysRejected ==
    spec_output # NotCalled =>
        /\ ShortFormsRead
        /\ (spec_input.type = "dict" /\ Len(spec_input.items) >= 2) =>
              spec_output.raised = "ValidationError"

\* C27 amended: as stated, but a mapping with two or more keys is rejected
\* unless it is the long form, holding a str under name and None, a sequence
\* of one element or a string-keyed mapping under arguments; the long form
\* is read as that name and those arguments.
C27_ManyKeysRejectedButLongForm ==
    spec_output # NotCalled =>
        /\ ShortFormsRead
        /\ (spec_input.type = "dict" /\ Len(spec_input.items) >= 2) =>
              IF LongForm(spec_input)
              THEN /\ spec_output.raised = NoneStr
                   /\ spec_output.name = ItemValue(spec_input, PyStr("name")).repr
                   /\ LET v == ItemValue(spec_input, PyStr("arguments"))
                      IN IF v.type = "list"
                         THEN spec_output.arguments = PyTuple(v.items)
                         ELSE spec_output.arguments = v
              ELSE spec_output.raised = "ValidationError"

\* {'MyClass': [1, 2, 3]} was read as one positional argument
C27_Witness ==
    /\ spec_input = PyDict(<<<<PyStr("MyClass"),
                             PyList(<<PyInt("1"), PyInt("2"), PyInt("3")>>)>>>>)
    /\ spec_output = NamedSpec("MyClass",
                               PyTuple(<<PyList(<<PyInt("1"), PyInt("2"), PyInt("3")>>)>>))

(***************************************************************************)
(* ExecutionEnvironmentToolset with a shared environment: concurrent runs  *)
(* entering and leaving the toolset.                                       *)
(***************************************************************************)
MaxRuns == 3

EnvRuns == 1..MaxRuns

notEnv == <<todoVars, sharedVars, permVars, hookVars, combinedVars, compactVars,
    lifeVars, stepVars, specVars, logVars, fetchVars>>

\* A run that is not inside an async with on the toolset; seen and left are
\* _running_count when its last __aenter__ took the lock and when it raised
Outside == [pc |-> "outside", raised |-> FALSE, seen |-> 0, left |-> 0]

\* ExecutionEnvironmentToolset.__init__ without environment_factory
InitEnv ==
    /\ \E shared_environment \in {NoneStr, "env"} :
          environment_toolset = [_shared_environment |-> shared_environment,
                                 _running_count |-> 0,
                                 _exit_stack |-> NoneStr,
                                 _enter_lock |-> None]
    /\ environment = [open |-> 0, escaped |-> FALSE]
    /\ callers = [r \in EnvRuns |-> Outside]

IdleEnv ==
    /\ environment_toolset = [_shared_environment |-> NoneStr, _running_count |-> 0,
                              _exit_stack |-> NoneStr, _enter_lock |-> None]
    /\ environment = [open |-> 0, escaped |-> FALSE]
    /\ callers = <<>>

\* anyio.Lock.locked
locked(lock) == lock # None

\* __aenter__: async with self._enter_lock, once the lock is free
AcquireEnter(r) ==
    /\ callers[r].pc = "outside"
    /\ ~locked(environment_toolset._enter_lock)
    /\ environment_toolset' = [environment_toolset EXCEPT !._enter_lock = r]
    /\ callers' = [callers EXCEPT
                      ![r] = [pc |-> "enter locked", raised |-> FALSE,
                              seen |-> environment_toolset._running_count, left |-> 0]]
    /\ UNCHANGED <<environment, notEnv>>

\* __aenter__ from self._running_count += 1 to the await on the environment,
\* to the RuntimeError, or to the end for a run that is not the first
EnterCounted(r) ==
    /\ callers[r].pc = "enter locked"
    /\ LET count == environment_toolset._running_count + 1
       IN IF count = 1
          THEN IF environment_toolset._shared_environment = NoneStr
               THEN /\ environment_toolset' =
                          [environment_toolset EXCEPT !._running_count = count - 1,
                                                      !._enter_lock = None]
                    /\ callers' = [callers EXCEPT ![r].pc = "outside", ![r].raised = TRUE,
                                                  ![r].left = count - 1]
               ELSE /\ environment_toolset' =
                          [environment_toolset EXCEPT !._running_count = count,
                                                      !._exit_stack = "stack"]
                    /\ callers' = [callers EXCEPT ![r].pc = "entering environment"]
          ELSE /\ environment_toolset' =
                     [environment_toolset EXCEPT !._running_count = count,
                                                 !._enter_lock = None]
               /\ callers' = [callers EXCEPT ![r].pc = "inside"]
    /\ UNCHANGED <<environment, notEnv>>

\* await self._exit_stack.enter_async_context(env) returns
EnvironmentEntered(r) ==
    /\ callers[r].pc = "entering environment"
    /\ environment' = [environment EXCEPT !.open = @ + 1]
    /\ environment_toolset' = [environment_toolset EXCEPT !._enter_lock = None]
    /\ callers' = [callers EXCEPT ![r].pc = "inside"]
    /\ UNCHANGED notEnv

\* The environment's __aenter__ raises: an Exception is caught, the count
\* taken back and the exception raised again; any other BaseException
\* (a CancelledError, a KeyboardInterrupt) passes except Exception
EnvironmentEnterRaises(r) ==
    /\ callers[r].pc = "entering environment"
    /\ \E is_exception \in BOOLEAN :
          LET count == IF is_exception THEN environment_toolset._running_count - 1
                       ELSE environment_toolset._running_count
          IN /\ environment_toolset' =
                   [environment_toolset EXCEPT !._running_count = count,
                                               !._enter_lock = None]
             /\ callers' = [callers EXCEPT ![r].pc = "outside", ![r].raised = TRUE,
                                           ![r].left = count]
             /\ environment' = [environment EXCEPT !.escaped = @ \/ ~is_exception]
    /\ UNCHANGED notEnv

\* __aexit__: async with self._enter_lock, once the lock is free
AcquireExit(r) ==
    /\ callers[r].pc = "inside"
    /\ ~locked(environment_toolset._enter_lock)
    /\ environment_toolset' = [environment_toolset EXCEPT !._enter_lock = r]
    /\ callers' = [callers EXCEPT ![r].pc = "exit locked"]
    /\ UNCHANGED <<environment, notEnv>>

\* __aexit__ from self._running_count -= 1 to the await on aclose, or to the
\* end for a run that is not the last
ExitCounted(r) ==
    /\ callers[r].pc = "exit locked"
    /\ LET count == environment_toolset._running_count - 1
       IN IF count = 0 /\ environment_toolset._exit_stack # NoneStr
          THEN /\ environment_toolset' =
                     [environment_toolset EXCEPT !._running_count = count]
               /\ callers' = [callers EXCEPT ![r].pc = "closing"]
          ELSE /\ environment_toolset' =
                     [environment_toolset EXCEPT !._running_count = count,
                                                 !._enter_lock = None]
               /\ callers' = [callers EXCEPT ![r].pc = "outside"]
    /\ UNCHANGED <<environment, notEnv>>

\* await self._exit_stack.aclose() returns
EnvironmentClosed(r) ==
    /\ callers[r].pc = "closing"
    /\ environment' = [environment EXCEPT !.open = @ - 1]
    /\ environment_toolset' = [environment_toolset EXCEPT !._exit_stack = NoneStr,
                                                          !._enter_lock = None]
    /\ callers' = [callers EXCEPT ![r].pc = "outside"]
    /\ UNCHANGED notEnv

\* The environment's __aexit__ has run and raised: the stack stays where it is
EnvironmentCloseRaises(r) ==
    /\ callers[r].pc = "closing"
    /\ environment' = [environment EXCEPT !.open = @ - 1]
    /\ environment_toolset' = [environment_toolset EXCEPT !._enter_lock = None]
    /\ callers' = [callers EXCEPT ![r].pc = "outside"]
    /\ UNCHANGED notEnv

NextEnv ==
    \E r \in EnvRuns :
        \/ AcquireEnter(r)
        \/ EnterCounted(r)
        \/ EnvironmentEntered(r)
        \/ EnvironmentEnterRaises(r)
        \/ AcquireExit(r)
        \/ ExitCounted(r)
        \/ EnvironmentClosed(r)
        \/ EnvironmentCloseRaises(r)

\* The runs whose __aenter__ has counted them and whose __aexit__ has not
\* yet taken them off
ActiveEnters ==
    {r \in EnvRuns : callers[r].pc \in {"entering environment", "inside", "exit locked"}}

\* The runs between a returned __aenter__ and the count of their __aexit__
InsideRuns == {r \in EnvRuns : callers[r].pc \in {"inside", "exit locked"}}

SharedCounting ==
    /\ environment_toolset._running_count >= 0
    /\ environment_toolset._running_count = Cardinality(ActiveEnters)
    /\ environment.open \in {0, 1}
    /\ InsideRuns # {} => environment.open = 1
    /\ ~locked(environment_toolset._enter_lock) =>
          (environment.open = 1 <=> environment_toolset._running_count > 0)
    /\ \A r \in EnvRuns : callers[r].raised => callers[r].left = callers[r].seen

\* C40: with a shared environment, under every interleaving of the runs'
\* __aenter__ and __aexit__ calls, the running count is never negative and is
\* the number of active enters, the environment is open exactly while that
\* number is above 0, is never entered twice without a close in between and
\* never closed while a run is inside, and an __aenter__ that raised (no
\* environment configured, or the environment's own enter raised) left the
\* running count as it found it.
C40_SharedEnvironmentCounting == SharedCounting

\* The same while every exception the environment's enter raised was an
\* Exception
CountingHoldsWhileOnlyExceptionsRaise == ~environment.escaped => SharedCounting

\* Two runs are inside the one open environment
TwoInsideOneEnvironment ==
    /\ Cardinality(InsideRuns) = 2
    /\ environment.open = 1
    /\ environment_toolset._running_count = 2

\* After an enter that let a BaseException pass, a run is inside an
\* environment that was never entered
InsideUnenteredEnvironment ==
    /\ environment.escaped
    /\ InsideRuns # {}
    /\ environment.open = 0

(***************************************************************************)
(* NamedSpec.serialize, and the way back through NamedSpec.deserialize     *)
(***************************************************************************)
\* NamedSpec.serialize with context {'use_short_form': ...}: the name, the
\* name mapped to the positional value or to the keyword mapping, or the
\* two fields as the model's own serializer dumps them
serialize(self, use_short_form) ==
    IF use_short_form
    THEN IF self.arguments.type = "none" THEN PyStr(self.name)
         ELSE IF self.arguments.type = "tuple"
         THEN PyDict(<<<<PyStr(self.name), self.arguments.items[1]>>>>)
         ELSE PyDict(<<<<PyStr(self.name), self.arguments>>>>)
    ELSE PyDict(<<<<PyStr("name"), PyStr(self.name)>>,
                  <<PyStr("arguments"), self.arguments>>>>)

\* The NamedSpec objects of the model: no arguments, one positional value of
\* any of the shapes, or a keyword mapping
NamedSpecs ==
    {NamedSpec(name, arguments) :
        name \in {"MyClass", "Other", "name", "arguments"},
        arguments \in {PyNone}
            \cup {PyTuple(<<value>>) : value \in ArgumentValues \cup {PyTuple(<<PyInt("1")>>)}}
            \cup {value \in ArgumentValues : value.type = "dict" /\ StrKeyed(value)}}

InitRoundTrip ==
    /\ spec_input \in [spec : NamedSpecs, use_short_form : BOOLEAN]
    /\ spec_output = [pc |-> "new", serialized |-> PyNone, spec |-> NotCalled]

\* model_dump(context={'use_short_form': ...})
Serialize ==
    /\ spec_output.pc = "new"
    /\ spec_output' = [spec_output EXCEPT
                          !.pc = "serialized",
                          !.serialized = serialize(spec_input.spec, spec_input.use_short_form)]
    /\ UNCHANGED <<spec_input, notSpec>>

\* NamedSpec.model_validate of what was dumped
Deserialize ==
    /\ spec_output.pc = "serialized"
    /\ spec_output' = [spec_output EXCEPT
                          !.pc = "deserialized",
                          !.spec = deserialize(spec_output.serialized)]
    /\ UNCHANGED <<spec_input, notSpec>>

NextRoundTrip ==
    \/ Serialize
    \/ Deserialize

\* C38: for every NamedSpec s (arguments None, one positional value of any
\* shape, or a keyword mapping), deserializing what serializing s with
\* use_short_form produced gives a spec with the name and the arguments of s.
C38_ShortFormRoundTrips ==
    (spec_output.pc = "deserialized" /\ spec_input.use_short_form) =>
        spec_output.spec = spec_input.spec

\* The positional value of a spec is a mapping with string keys only
PositionalMapping(spec) ==
    /\ spec.arguments.type = "tuple"
    /\ spec.arguments.items[1].type = "dict"
    /\ StrKeyed(spec.arguments.items[1])

\* The way back gives the spec it started from in the long form, and in the
\* short form unless the positional value is a mapping with string keys,
\* which comes back as the keyword mapping
RoundTripsButPositionalMapping ==
    spec_output.pc = "deserialized" =>
        IF spec_input.use_short_form /\ PositionalMapping(spec_input.spec)
        THEN spec_output.spec
                 = NamedSpec(spec_input.spec.name, spec_input.spec.arguments.items[1])
        ELSE spec_output.spec = spec_input.spec

(***************************************************************************)
(* build_registry                                                          *)
(***************************************************************************)

\* The most types in custom_types and in defaults
MaxTypes == 3

\* Classes, by __name__, and what get_name answers for them
Type(cls, name) == [cls |-> cls, name |-> name]
Types ==
    {Type("Foo", "Foo"), Type("Bar", "Bar"), Type("Foo2", "Foo"), Type("OptedOut", NoneStr)}

\* validate callbacks: none, or one that raises for the class Foo
Validators == {NoneStr, "Foo is not allowed"}

\* A dict from names to classes, by its items in insertion order
RegistryKeys(registry) == [i \in 1..Len(registry) |-> registry[i][1]]
InRegistry(registry, name) == \E i \in 1..Len(registry) : registry[i][1] = name
\* registry.get(name)
RegistryGet(registry, name) ==
    IF InRegistry(registry, name)
    THEN registry[CHOOSE i \in 1..Len(registry) : registry[i][1] = name][2]
    ELSE NoneStr
\* registry[name] = cls
RegistrySet(registry, name, cls) ==
    IF InRegistry(registry, name)
    THEN [i \in 1..Len(registry) |->
             IF registry[i][1] = name THEN <<name, cls>> ELSE registry[i]]
    ELSE Append(registry, <<name, cls>>)
\* registry.setdefault(name, cls)
RegistrySetDefault(registry, name, cls) ==
    IF InRegistry(registry, name) THEN registry ELSE Append(registry, <<name, cls>>)

ValueError(message) == [raised |-> "ValueError", message |-> message, registry |-> <<>>]
Registry(registry) == [raised |-> NoneStr, message |-> <<>>, registry |-> registry]

\* A loop over defaults that assigns, as the loop over custom_types does
RECURSIVE RegisterDefaultsAssign(_, _)
RegisterDefaultsAssign(registry, defaults) ==
    IF defaults = <<>> THEN Registry(registry)
    ELSE LET cls == Head(defaults)
         IN RegisterDefaultsAssign(IF cls.name # NoneStr
                                   THEN RegistrySet(registry, cls.name, cls.cls)
                                   ELSE registry,
                                   Tail(defaults))

\* The loop over defaults
RECURSIVE RegisterDefaults(_, _)
RegisterDefaults(registry, defaults) ==
    IF defaults = <<>> THEN Registry(registry)
    ELSE LET cls == Head(defaults)
         IN RegisterDefaults(IF cls.name # NoneStr
                             THEN RegistrySetDefault(registry, cls.name, cls.cls)
                             ELSE registry,
                             Tail(defaults))

\* The loop over custom_types, then the loop over defaults
RECURSIVE RegisterCustom(_, _, _, _)
RegisterCustom(registry, custom_types, defaults, validate) ==
    IF custom_types = <<>> THEN RegisterDefaults(registry, defaults)
    ELSE LET cls == Head(custom_types)
         IN IF validate # NoneStr /\ cls.cls = "Foo"
            THEN ValueError(<<validate>>)
            ELSE IF cls.name = NoneStr
            THEN ValueError(<<"Custom class has opted out of serialization (name is None)",
                              cls.cls>>)
            ELSE IF InRegistry(registry, cls.name)
            THEN ValueError(<<"Duplicate class name", cls.name>>)
            ELSE RegisterCustom(RegistrySet(registry, cls.name, cls.cls),
                                Tail(custom_types), defaults, validate)

\* build_registry(custom_types=, defaults=, get_name=, label=, validate=)
build_registry(custom_types, defaults, validate) ==
    RegisterCustom(<<>>, custom_types, defaults, validate)

InitRegistry ==
    /\ spec_input \in [custom_types : SeqsUpTo(Types, MaxTypes),
                       defaults : SeqsUpTo(Types, MaxTypes),
                       validate : Validators]
    /\ spec_output = NotCalled

BuildRegistry ==
    /\ spec_output = NotCalled
    /\ spec_output' = build_registry(spec_input.custom_types, spec_input.defaults,
                                     spec_input.validate)
    /\ UNCHANGED <<spec_input, notSpec>>

NextRegistry == BuildRegistry

\* C28: two custom types of one name, a custom type whose name is None (and
\* a custom type the validate callback refuses) make the build fail, and no
\* registry is returned; otherwise the registry holds every custom type
\* under its name, every default whose name is not None and is not taken
\* under its name, the first such default winning, and nothing else.
C28_CustomTypesWinOverDefaults ==
    spec_output # NotCalled =>
        LET custom == spec_input.custom_types
            defaults == spec_input.defaults
            fails ==
                \/ \E i \in 1..Len(custom) : custom[i].name = NoneStr
                \/ \E i, j \in 1..Len(custom) : i # j /\ custom[i].name = custom[j].name
                \/ \E i \in 1..Len(custom) :
                       spec_input.validate # NoneStr /\ custom[i].cls = "Foo"
            registry == spec_output.registry
        IN IF fails
           THEN spec_output.raised = "ValueError" /\ registry = <<>>
           ELSE /\ spec_output.raised = NoneStr
                /\ \A i \in 1..Len(custom) :
                       RegistryGet(registry, custom[i].name) = custom[i].cls
                /\ \A i \in 1..Len(defaults) :
                       LET name == defaults[i].name
                           taken == \/ \E j \in 1..Len(custom) : custom[j].name = name
                                    \/ \E j \in 1..(i - 1) : defaults[j].name = name
                       IN /\ name = NoneStr => ~InRegistry(registry, name)
                          /\ name # NoneStr => InRegistry(registry, name)
                          /\ (name # NoneStr /\ ~taken) =>
                                 RegistryGet(registry, name) = defaults[i].cls
                /\ \A k \in 1..Len(registry) :
                       /\ \/ \E i \in 1..Len(custom) : custom[i].name = registry[k][1]
                          \/ \E i \in 1..Len(defaults) : defaults[i].name = registry[k][1]
                       /\ \A l \in 1..Len(registry) : registry[l][1] = registry[k][1] => l = k

\* Foo2, named 'Foo', is a custom type and Foo and Bar are defaults: the
\* registry holds Foo2 under 'Foo' and Bar under 'Bar'
C28_Witness ==
    /\ spec_output # NotCalled
    /\ spec_input.custom_types = <<Type("Foo2", "Foo")>>
    /\ spec_input.defaults = <<Type("Foo", "Foo"), Type("Bar", "Bar")>>
    /\ spec_output = Registry(<<<<"Foo", "Foo2">>, <<"Bar", "Bar">>>>)

(***************************************************************************)
(* load_from_registry                                                      *)
(***************************************************************************)

\* The types build_registry is given for the registries that are loaded from
MaxRegistered == 2

\* __init__ of the classes: Foo(x: int = 0), Bar(msg: str); Foo2 and OptedOut
\* take no argument
Parameter(name, required) == [name |-> name, required |-> required]
Signature(cls) ==
    IF cls = "Foo" THEN <<Parameter("x", FALSE)>>
    ELSE IF cls = "Bar" THEN <<Parameter("msg", TRUE)>>
    ELSE <<>>

\* NamedSpec.args and NamedSpec.kwargs
SpecArgs(spec) == IF spec.arguments.type = "tuple" THEN spec.arguments.items ELSE <<>>
SpecKwargs(spec) == IF spec.arguments.type = "dict" THEN spec.arguments.items ELSE <<>>

NoException == [type |-> NoneStr]
Exception(type) == [type |-> type]
Constructed(cls, fields) == [raised |-> NoException, cls |-> cls, fields |-> fields]
Raised(e) == [raised |-> e, cls |-> NoneStr, fields |-> <<>>]

\* cls(*args, **kwargs): the arguments are bound to the parameters of
\* __init__, and a call that does not fit raises TypeError
Call(cls, args, kwargs) ==
    LET params == Signature(cls)
        named(k) == \E i \in 1..Len(kwargs) : kwargs[i][1].repr = params[k].name
        value(k) ==
            IF k <= Len(args) THEN args[k]
            ELSE IF named(k)
            THEN kwargs[CHOOSE i \in 1..Len(kwargs) : kwargs[i][1].repr = params[k].name][2]
            ELSE PyStr("default")
    IN IF \/ Len(args) > Len(params)
          \/ \E i \in 1..Len(kwargs) :
                ~\E k \in (Len(args) + 1)..Len(params) : params[k].name = kwargs[i][1].repr
          \/ \E k \in (Len(args) + 1)..Len(params) : params[k].required /\ ~named(k)
       THEN Raised(Exception("TypeError"))
       ELSE Constructed(cls, [k \in 1..Len(params) |-> <<params[k].name, value(k)>>])

\* instantiate callbacks: none, one that builds the object by a classmethod
\* taking any arguments, one that raises
Instantiators == {NoneStr, "create", "failing"}

\* instantiate(cls, spec.args, spec.kwargs) or cls(*spec.args, **spec.kwargs)
Instantiate(instantiate, cls, args, kwargs) ==
    IF instantiate = NoneStr THEN Call(cls, args, kwargs)
    ELSE IF instantiate = "create"
    THEN Constructed(cls, <<<<"value", IF args # <<>> THEN args[1] ELSE PyStr("")>>>>)
    ELSE Raised(Exception("RuntimeError"))

\* What load_from_registry gives: the object or the ValueError, and the
\* constructions it attempted
Loaded(object, calls) ==
    [raised |-> NoneStr, message |-> <<>>, cause |-> NoException, object |-> object,
     calls |-> calls]
LoadError(message, cause, calls) ==
    [raised |-> "ValueError", message |-> message, cause |-> cause,
     object |-> Raised(NoException), calls |-> calls]

\* A failure message that leaves out the name and the context
FailedToInstantiateBare(label, name, context, e) ==
    [text |-> "Failed to instantiate", label |-> label, name |-> "", detail |-> "",
     e |-> e]

\* f'Failed to instantiate {label} {spec.name!r}{detail}: {e}'
FailedToInstantiate(label, name, context, e) ==
    [text |-> "Failed to instantiate", label |-> label, name |-> name,
     detail |-> IF context # NoneStr THEN context ELSE "", e |-> e]

\* f'{label.capitalize()} {spec.name!r} is not in the provided
\* `{custom_types_param}`. Valid choices: {list(registry.keys())}. ...'
NotInRegistry(label, name, custom_types_param, keys) ==
    [text |-> "is not in the provided", label |-> label, name |-> name,
     custom_types_param |-> custom_types_param, keys |-> keys]

\* load_from_registry(registry, spec, label=, custom_types_param=, context=,
\* instantiate=)
load_from_registry(registry, spec, label, custom_types_param, context, instantiate) ==
    LET cls == RegistryGet(registry, spec.name)
    IN IF cls = NoneStr
       THEN LoadError(NotInRegistry(label, spec.name, custom_types_param,
                                    RegistryKeys(registry)), NoException, <<>>)
       ELSE LET object == Instantiate(instantiate, cls, SpecArgs(spec), SpecKwargs(spec))
                calls == <<<<instantiate, cls, SpecArgs(spec), SpecKwargs(spec)>>>>
            IN IF object.raised # NoException
               THEN LoadError(FailedToInstantiate(label, spec.name, context, object.raised),
                              object.raised, calls)
               ELSE Loaded(object, calls)

\* The registries build_registry gives for up to MaxRegistered types
Registries ==
    {build_registry(custom_types, defaults, NoneStr).registry :
        custom_types \in {c \in SeqsUpTo(Types, MaxRegistered) :
                             build_registry(c, <<>>, NoneStr).raised = NoneStr},
        defaults \in SeqsUpTo(Types, MaxRegistered)}

SpecArguments ==
    {PyNone, PyTuple(<<PyInt("42")>>),
     PyDict(<<<<PyStr("msg"), PyStr("hello")>>>>),
     PyDict(<<<<PyStr("x"), PyInt("1")>>>>),
     PyDict(<<>>)}

InitLoad ==
    /\ spec_input \in [registry : Registries,
                       spec : {NamedSpec(name, arguments) :
                                  name \in {"Foo", "Bar", "Baz"},
                                  arguments \in SpecArguments},
                       label : {"thing"},
                       custom_types_param : {"custom_things", "custom_capability_types"},
                       context : {NoneStr, "agent.yaml"},
                       instantiate : Instantiators]
    /\ spec_output = NotCalled

LoadFromRegistry ==
    /\ spec_output = NotCalled
    /\ spec_output' = load_from_registry(spec_input.registry, spec_input.spec,
                                         spec_input.label, spec_input.custom_types_param,
                                         spec_input.context, spec_input.instantiate)
    /\ UNCHANGED <<spec_input, notSpec>>

NextLoad == LoadFromRegistry

\* The calls each class accepts: Foo() , Foo(v), Foo(x=v); Bar(v),
\* Bar(msg=v); no argument for the other classes
Accepts(cls, arguments) ==
    LET keys == {arguments.items[i][1].repr : i \in 1..Len(arguments.items)}
    IN IF arguments.type = "tuple" THEN cls \in {"Foo", "Bar"}
       ELSE IF cls = "Foo" THEN keys \subseteq {"x"}
       ELSE IF cls = "Bar" THEN keys = {"msg"}
       ELSE keys = {}

\* C29: a spec.name that is not a registry key fails with an error listing
\* all registry keys and naming the custom-types parameter, and nothing is
\* constructed; a construction that raises, by the default call or by the
\* instantiate callback, fails with an error naming the spec and the context
\* and carrying the exception raised as its cause; otherwise the constructed
\* object of the registered class is returned.
C29_LoadFailsByNameOrConstruction ==
    spec_output # NotCalled =>
        LET spec == spec_input.spec
            cls == RegistryGet(spec_input.registry, spec.name)
            raises == \/ spec_input.instantiate = "failing"
                      \/ spec_input.instantiate = NoneStr /\ ~Accepts(cls, spec.arguments)
        IN IF ~InRegistry(spec_input.registry, spec.name)
           THEN /\ spec_output.raised = "ValueError"
                /\ spec_output.message.keys = RegistryKeys(spec_input.registry)
                /\ spec_output.message.custom_types_param = spec_input.custom_types_param
                /\ spec_output.message.name = spec.name
                /\ spec_output.calls = <<>>
           ELSE IF raises
           THEN /\ spec_output.raised = "ValueError"
                /\ spec_output.message.name = spec.name
                /\ spec_output.message.detail =
                       (IF spec_input.context = NoneStr THEN "" ELSE spec_input.context)
                /\ spec_output.cause # NoException
                /\ spec_output.cause.type =
                       (IF spec_input.instantiate = "failing" THEN "RuntimeError"
                        ELSE "TypeError")
           ELSE /\ spec_output.raised = NoneStr
                /\ spec_output.object.cls = cls
                /\ Len(spec_output.calls) = 1

\* Bar(msg), registered by default next to Foo, loaded with arguments None:
\* the load fails naming 'Bar'
C29_Witness ==
    /\ spec_input.registry = <<<<"Foo", "Foo">>, <<"Bar", "Bar">>>>
    /\ spec_input.spec = NamedSpec("Bar", PyNone)
    /\ spec_input.instantiate = NoneStr
    /\ spec_output.raised = "ValueError"
    /\ spec_output.message.text = "Failed to instantiate"
    /\ spec_output.message.name = "Bar"
    /\ spec_output.cause = Exception("TypeError")

(***************************************************************************)
(* Glob patterns of permission rules (fnmatch at _permissions.py:68)       *)
(***************************************************************************)

\* The longest key and the most pattern elements of the keys and patterns
\* that are matched in full
MaxKeyLen == 3
MaxTokens == 2

\* The elements of a glob pattern
Star == [kind |-> "star", text |-> <<"*">>, members |-> {}, negated |-> FALSE]
AnyOne == [kind |-> "any", text |-> <<"?">>, members |-> {}, negated |-> FALSE]
Class(text, members, negated) ==
    [kind |-> "class", text |-> <<"[">> \o text \o <<"]">>, members |-> members,
     negated |-> negated]
Lit(c) == [kind |-> "lit", text |-> <<c>>, members |-> {c}, negated |-> FALSE]

GlobTokens ==
    {Star, AnyOne,
     Class(<<"a", "b">>, {"a", "b"}, FALSE),
     Class(<<"!", "a">>, {"a"}, TRUE),
     Class(<<"a", "-", "c">>, {"a", "b", "c"}, FALSE),
     Lit("a"), Lit("A"), Lit("("), Lit("."), Lit("/"), Lit(" ")}

\* The pattern as written
RECURSIVE Render(_)
Render(tokens) == IF tokens = <<>> THEN <<>> ELSE Head(tokens).text \o Render(Tail(tokens))

GlobPatterns == SeqsUpTo(GlobTokens, MaxTokens)
GlobKeys == SeqsUpTo({"a", "b", "A", "(", ".", "/", " "}, MaxKeyLen)

\* "shell(git *)", "shell(*)", "*" and the keys of the scenario
ShellGitAny == <<"s", "h", "e", "l", "l", "(", "g", "i", "t", " ", "*", ")">>
ShellAny == <<"s", "h", "e", "l", "l", "(", "*", ")">>
ShellGitStatus == <<"s", "h", "e", "l", "l", "(", "g", "i", "t", " ", "s", "t", "a", "t", "u", "s", ")">>
ShellRmRf == <<"s", "h", "e", "l", "l", "(", "r", "m", " ", "-", "r", "f", " ", "/", ")">>
ReadFile == <<"r", "e", "a", "d", "_", "f", "i", "l", "e">>
ScenarioRules ==
    <<PermissionRule(ShellGitAny, ALLOW), PermissionRule(ShellAny, DENY),
      PermissionRule(<<"*">>, ALLOW)>>
ScenarioKeys == {ShellGitStatus, ShellRmRf, ReadFile}

\* One rule that allows what its pattern matches, everything else being
\* denied, or the rules of the scenario; on either platform
InitGlob ==
    /\ perm_call \in [key : GlobKeys \cup ScenarioKeys,
                      rules : {<<PermissionRule(Render(tokens), ALLOW)>> :
                                  tokens \in GlobPatterns} \cup {ScenarioRules},
                      default : {DENY},
                      os_name : {"posix", "nt"}]
    /\ perm_result = NoPermResult

NextGlob == EvaluatePermission

\* The elements a pattern was written from
TokensOf(pattern) == CHOOSE tokens \in GlobPatterns : Render(tokens) = pattern

\* Shell-glob matching of the whole key: the key is cut into one piece for
\* each element of the pattern, any run for '*', and one character for each
\* other element: any for '?', one of the class for '[...]', the character
\* itself for every other character
TokenAccepts(token, c) ==
    IF token.kind = "any" THEN TRUE
    ELSE IF token.kind = "class" THEN (c \in token.members) # token.negated
    ELSE c = token.text[1]
GlobMatches(key, tokens) ==
    \E cut \in [0..Len(tokens) -> 0..Len(key)] :
        /\ cut[0] = 0
        /\ cut[Len(tokens)] = Len(key)
        /\ \A t \in 1..Len(tokens) :
              /\ cut[t - 1] <= cut[t]
              /\ \/ tokens[t].kind = "star"
                 \/ cut[t] = cut[t - 1] + 1 /\ TokenAccepts(tokens[t], key[cut[t]])

GlobRules ==
    perm_result.decision # NoneStr =>
        /\ Len(perm_call.rules) = 1 =>
              (perm_result.decision = ALLOW) =
                  GlobMatches(perm_call.key, TokensOf(perm_call.rules[1].pattern))
        /\ perm_call.rules = ScenarioRules =>
              /\ perm_call.key = ShellGitStatus => perm_result.decision = ALLOW
              /\ perm_call.key = ShellRmRf => perm_result.decision = DENY
              /\ perm_call.key = ReadFile => perm_result.decision = ALLOW

\* C30: a rule's pattern matches a key by shell-glob rules applied to the
\* whole key: '*' any run of characters, '?' one character, '[...]' one
\* character of the class, every other character only itself; and with the
\* rules [("shell(git *)", ALLOW), ("shell(*)", DENY), ("*", ALLOW)] the key
\* "shell(git status)" gives ALLOW, "shell(rm -rf /)" DENY and "read_file"
\* ALLOW.
C30_PatternsMatchByGlobRules == GlobRules

\* The same where os.path.normcase changes nothing
GlobRulesOnPosix == perm_call.os_name = "posix" => GlobRules

(***************************************************************************)
(* TodoToolset.__init__ / __aenter__: which storage a run works on         *)
(***************************************************************************)
Runs == 1..NumRuns

\* InMemoryTodoStorage.__init__
InMemoryTodoStorage == [_todos |-> <<>>, _next_id |-> 1]


\* A line that takes a started todo for a completed one
FormatTodoLineStarted(stored, id) ==
    LET t == stored[id]
        completed_ids == {i \in DOMAIN stored : stored[i].status # "pending"}
        blocked_by == SelectSeq(t.depends_on, LAMBDA d : d \notin completed_ids)
    IN [icon |-> CASE t.status = "pending" -> "[ ]"
                   [] t.status = "in_progress" -> "[~]"
                   [] t.status = "completed" -> "[x]",
        id |-> id, content |-> t.content,
        active_form |-> IF t.status = "in_progress" THEN t.active_form ELSE NoneStr,
        blocked_by |-> blocked_by]

\* One line of _format_todo_list: the icon, the id and content, the active
\* form while in progress, the dependencies not completed
FormatTodoLine(stored, id) ==
    LET t == stored[id]
        completed_ids == {i \in DOMAIN stored : stored[i].status = "completed"}
        blocked_by == SelectSeq(t.depends_on, LAMBDA d : d \notin completed_ids)
    IN [icon |-> CASE t.status = "pending" -> "[ ]"
                   [] t.status = "in_progress" -> "[~]"
                   [] t.status = "completed" -> "[x]",
        id |-> id, content |-> t.content,
        active_form |-> IF t.status = "in_progress" THEN t.active_form ELSE NoneStr,
        blocked_by |-> blocked_by]

\* _format_todo_list: 'No todos.' or one line per todo, in list order
format_todo_list(stored) ==
    IF DOMAIN stored = {} THEN "No todos."
    ELSE LET ids == SortedIds(DOMAIN stored)
         IN [k \in 1..Len(ids) |-> FormatTodoLine(stored, ids[k])]

\* A run outside the toolset: how often it entered, how many todos it created
\* in each of its scopes, and in the scope it is in the result of list_todos
\* and the id given by create_todo when that was its first call
NoRunScope == [active |-> FALSE, created |-> <<>>, calls |-> 0,
               first_list |-> NoneStr, first_id |-> None]

\* TodoToolset(storage=storage): storage 1 of the heap is the supplied
\* storage, or the one __init__ constructs when none is supplied
InitLife ==
    /\ toolset \in [_user_storage : BOOLEAN, _storage : {1}]
    /\ heap = <<InMemoryTodoStorage>>
    /\ runs = [r \in Runs |-> NoRunScope]

IdleLife ==
    /\ toolset = [_user_storage |-> FALSE, _storage |-> 1]
    /\ heap = <<InMemoryTodoStorage>>
    /\ runs = [r \in Runs |-> NoRunScope]

\* How often runs 1..n entered the toolset
RECURSIVE Entered(_)
Entered(n) == IF n = 0 THEN 0 ELSE Len(runs[n].created) + Entered(n - 1)

\* __aenter__ that keeps the storage it has
aenter_keep(r) ==
    /\ ~runs[r].active
    /\ Entered(NumRuns) < MaxScopes
    /\ runs' = [runs EXCEPT ![r] = [NoRunScope EXCEPT !.active = TRUE,
                                                      !.created = Append(runs[r].created, 0)]]
    /\ UNCHANGED <<toolset, heap, notLife>>

\* async with toolset: __aenter__ replaces _storage by a new
\* InMemoryTodoStorage when no storage was supplied
aenter(r) ==
    /\ ~runs[r].active
    /\ Entered(NumRuns) < MaxScopes
    /\ IF ~toolset._user_storage
       THEN /\ heap' = Append(heap, InMemoryTodoStorage)
            /\ toolset' = [toolset EXCEPT !._storage = Len(heap) + 1]
       ELSE UNCHANGED <<toolset, heap>>
    /\ runs' = [runs EXCEPT ![r] = [NoRunScope EXCEPT !.active = TRUE,
                                                      !.created = Append(runs[r].created, 0)]]
    /\ UNCHANGED notLife

\* The end of the async with block: the inherited __aexit__ keeps _storage
aexit(r) ==
    /\ runs[r].active
    /\ runs' = [runs EXCEPT ![r] = [NoRunScope EXCEPT !.created = runs[r].created]]
    /\ UNCHANGED <<toolset, heap, notLife>>

\* The content a run gives the todos of its current scope
ScopeContent(r) == <<r, Len(runs[r].created)>>

\* A run inside the toolset calls create_todo(content, active_form): the todo
\* goes to the storage self._storage refers to at the call
run_create_todo(r) ==
    /\ runs[r].active
    /\ runs[r].created[Len(runs[r].created)] < MaxScopeTodos
    /\ LET s == toolset._storage
           n == Len(runs[r].created)
       IN /\ heap' = [heap EXCEPT ![s] =
                         [_todos |-> StorageCreate(heap[s]._todos, heap[s]._next_id,
                                                   ScopeContent(r), "a1", <<>>),
                          _next_id |-> heap[s]._next_id + 1]]
          /\ runs' = [runs EXCEPT ![r] =
                         [@ EXCEPT !.created = [@ EXCEPT ![n] = @ + 1],
                                   !.calls = @ + 1,
                                   !.first_id = IF runs[r].calls = 0
                                                THEN heap[s]._next_id ELSE @]]
    /\ UNCHANGED <<toolset, notLife>>

\* A run inside the toolset calls list_todos
run_list_todos(r) ==
    /\ runs[r].active
    /\ runs[r].calls < MaxScopeTodos + 1
    /\ runs' = [runs EXCEPT ![r] =
                   [@ EXCEPT !.calls = @ + 1,
                             !.first_list =
                                 IF runs[r].calls = 0
                                 THEN format_todo_list(heap[toolset._storage]._todos)
                                 ELSE @]]
    /\ UNCHANGED <<toolset, heap, notLife>>

\* Runs that may overlap on the one toolset instance
NextRuns ==
    \E r \in Runs :
        \/ aenter(r)
        \/ aexit(r)
        \/ run_create_todo(r)
        \/ run_list_todos(r)

\* A run enters when no run is inside the toolset
aenter_scope(r) ==
    /\ \A q \in Runs : ~runs[q].active
    /\ aenter(r)

\* Enter/exit scopes one after another
NextScopes ==
    \E r \in Runs :
        \/ aenter_scope(r)
        \/ aexit(r)
        \/ run_create_todo(r)
        \/ run_list_todos(r)

\* The ids of the todos that list_todos shows a run
Visible == DOMAIN heap[toolset._storage]._todos

\* The ids of the stored todos that run r created in its scope k
CreatedIn(stored, r, k) == {i \in DOMAIN stored : stored[i].content = <<r, k>>}

\* C12: with no storage supplied, every run inside the toolset sees all the
\* todos it created since it entered and no todo that another run created,
\* also while another run is inside the same toolset instance.
C12_RunOwnsItsStorage ==
    ~toolset._user_storage =>
        \A r \in Runs :
            runs[r].active =>
                LET stored == heap[toolset._storage]._todos
                    k == Len(runs[r].created)
                IN /\ Cardinality(CreatedIn(stored, r, k)) = runs[r].created[k]
                   /\ Visible = CreatedIn(stored, r, k)

\* C13: over enter/exit scopes one after another, with no storage supplied a
\* run that has just entered lists 'No todos.' and its first create_todo gets
\* id 1, whatever earlier scopes created; with a supplied storage every todo
\* created in any scope so far is still stored.
C13_ScopesResetOnlyOwnedStorage ==
    IF ~toolset._user_storage
    THEN \A r \in Runs :
            runs[r].active =>
                /\ runs[r].first_list \in {NoneStr, "No todos."}
                /\ runs[r].first_id \in {None, 1}
                /\ Visible = CreatedIn(heap[toolset._storage]._todos, r, Len(runs[r].created))
    ELSE \A r \in Runs : \A k \in 1..Len(runs[r].created) :
            Cardinality(CreatedIn(heap[1]._todos, r, k)) = runs[r].created[k]

\* A run in a later scope that listed 'No todos.' and then got id 1 from
\* create_todo, after an earlier scope created todos
C13_Witness ==
    /\ ~toolset._user_storage
    /\ \E r \in Runs :
          /\ runs[r].active
          /\ runs[r].first_list = "No todos."
          /\ 1 \in Visible
          /\ \E q \in Runs : \E k \in 1..Len(runs[q].created) :
                /\ <<q, k>> # <<r, Len(runs[r].created)>>
                /\ runs[q].created[k] > 0

(***************************************************************************)
(* list_todos and complete_todo: the rendered list                         *)
(***************************************************************************)
\* The string _format_todo_list returns for a storage
Rendered(stored) ==
    IF DOMAIN stored = {} THEN ToolReturn("No todos.", None, NoneStr, <<>>)
    ELSE ToolReturn("lines", None, NoneStr, format_todo_list(stored))

\* create_todo with a dependency list over the ids a storage of MaxTodos
\* todos can hold
CreateTodoListed ==
    /\ next_id <= MaxTodos
    /\ \E depends_on \in OptDepLists :
          ToolCall("create_todo", Arguments(None, "c1", "a1", NoneStr, depends_on),
                   create_todo_call(todos, next_id, "c1", "a1", depends_on),
                   ToolReturn("Created todo", next_id, "c1", <<>>))

\* update_todo(todo_id, status=...): a todo is started, or reopened
SetStatusListed ==
    /\ next_id > 1
    /\ \E todo_id \in ArgIds, status \in {"pending", "in_progress"} :
          ToolCall("update_todo", Arguments(todo_id, NoneStr, NoneStr, status, NoneList),
                   update_todo_call(todos, next_id, todo_id, NoneStr, NoneStr, status,
                                    NoneList),
                   ToolReturn("Updated todo", todo_id, NoneStr, <<>>))

\* complete_todo(todo_id): the rendering of storage.list() after the update
CompleteTodoCall ==
    /\ next_id > 1
    /\ \E todo_id \in ArgIds :
          LET out == complete_todo_call(todos, next_id, todo_id)
          IN ToolCall("complete_todo",
                      Arguments(todo_id, NoneStr, NoneStr, NoneStr, NoneList),
                      out, Rendered(out.todos))

DeleteTodoListed ==
    /\ next_id > 1
    /\ \E todo_id \in ArgIds :
          ToolCall("delete_todo", Arguments(todo_id, NoneStr, NoneStr, NoneStr, NoneList),
                   delete_todo_call(todos, next_id, todo_id),
                   ToolReturn("Deleted todo", todo_id, NoneStr, <<>>))

\* list_todos(): the rendering of storage.list()
ListTodosCall ==
    /\ tool_call.op # "list_todos"
    /\ ToolCall("list_todos", Arguments(None, NoneStr, NoneStr, NoneStr, NoneList),
                Outcome("ok", todos, next_id), Rendered(todos))

NextTodoList ==
    \/ CreateTodoListed
    \/ SetStatusListed
    \/ CompleteTodoCall
    \/ DeleteTodoListed
    \/ ListTodosCall

\* The last call returned a rendered list
RenderingReturned ==
    /\ tool_call.op \in {"list_todos", "complete_todo"}
    /\ last.err = "ok"

\* The line of todo i in the rendering the last call returned
LinesOf(i) ==
    {k \in 1..Len(tool_call.result.lines) : tool_call.result.lines[k].id = i}

\* The rendering the last call returned has one line per stored todo, and a
\* line names d as a blocker exactly when its todo depends on d and todo d
\* is not completed
RenderingFaithful ==
    /\ tool_call.result.text = IF DOMAIN todos = {} THEN "No todos." ELSE "lines"
    /\ Len(tool_call.result.lines) = Cardinality(DOMAIN todos)
    /\ \A i \in DOMAIN todos : Cardinality(LinesOf(i)) = 1
    /\ \A k \in 1..Len(tool_call.result.lines) :
          LET line == tool_call.result.lines[k]
          IN /\ line.id \in DOMAIN todos
             /\ \A d \in ArgIds :
                   InList(d, line.blocked_by) <=>
                      /\ InList(d, todos[line.id].depends_on)
                      /\ d \in DOMAIN todos
                      /\ todos[d].status # "completed"

\* C32: complete_todo(id) sets that todo's status to completed and changes
\* nothing else, and returns the rendering of the whole list as it then is:
\* one line per stored todo.  In every rendering that list_todos or
\* complete_todo returns, the line of todo t names d as a blocker exactly
\* when d is in t.depends_on and the todo with id d is not completed; the
\* rendering complete_todo(d) returns names d as a blocker of no todo.
C32_CompleteRendersCurrentList ==
    [][/\ (tool_call'.op = "complete_todo" /\ last'.err = "ok") =>
             LET d == tool_call'.args.todo_id
             IN /\ d \in DOMAIN todos
                /\ todos' = [todos EXCEPT ![d].status = "completed"]
                /\ next_id' = next_id
                /\ \A k \in 1..Len(tool_call'.result.lines) :
                      ~InList(d, tool_call'.result.lines[k].blocked_by)
       /\ (tool_call'.op = "list_todos" /\ last'.err = "ok") =>
             (todos' = todos /\ next_id' = next_id)
       /\ RenderingReturned' => RenderingFaithful'
    ]_vars

\* C32's case: complete_todo(1) returned three lines; todo 3 depends on
\* todos 1 and 2 and its line names 2 alone as its blocker
C32_Witness ==
    /\ tool_call.op = "complete_todo"
    /\ last.err = "ok"
    /\ last.touched = {1}
    /\ tool_call.args.todo_id = 1
    /\ Len(tool_call.result.lines) = 3
    /\ 3 \in DOMAIN todos
    /\ todos[3].depends_on = <<1, 2>>
    /\ tool_call.result.lines[3].blocked_by = <<2>>

(***************************************************************************)
(* InMemoryTodoStorage on its own: create, update and delete               *)
(***************************************************************************)
\* ids an InMemoryTodoStorage hands out before the model stops creating
MaxStorageIds == 3

\* A create that numbers the new todo after the todos it holds
storage_create_count(s, nid, content, active_form, depends_on) ==
    LET id == Cardinality(DOMAIN s) + 1
    IN [todos |-> StorageCreate(s, id, content, active_form, depends_on),
        next_id |-> id + 1, id |-> id]

\* InMemoryTodoStorage.create: the todo gets id self._next_id and is stored
\* under it, then self._next_id += 1; the todo is returned
storage_create(s, nid, content, active_form, depends_on) ==
    [todos |-> StorageCreate(s, nid, content, active_form, depends_on),
     next_id |-> nid + 1, id |-> nid]

\* What a storage operation leaves alone
notStorage == <<tool_call, sharedVars, permVars, hookVars, combinedVars, compactVars,
    lifeVars, stepVars, specVars, fetchVars, envVars>>

StorageCreateOp ==
    /\ next_id <= MaxStorageIds
    /\ \E depends_on \in {<<>>, <<1>>} :
          LET out == storage_create(todos, next_id, "c1", "a1", depends_on)
          IN /\ todos' = out.todos
             /\ next_id' = out.next_id
             /\ assigned' = Append(assigned, out.id)
             /\ last' = [op |-> "create", err |-> "ok", touched |-> {out.id}]
    /\ UNCHANGED notStorage

\* update(todo) with a Todo that create, get or list returned earlier and
\* whose fields the caller has assigned; the storage may have deleted it since
StorageUpdateOp ==
    /\ \E k \in 1..Len(assigned), status \in TodoStatus :
          /\ todos' = StorageUpdate(todos, assigned[k], Todo("c1", status, "a1", <<>>))
          /\ last' = [op |-> "update", err |-> "ok", touched |-> {assigned[k]}]
    /\ UNCHANGED <<next_id, assigned>>
    /\ UNCHANGED notStorage

\* delete(todo_id), of a stored id or not
StorageDeleteOp ==
    /\ \E todo_id \in 1..(MaxStorageIds + 1) :
          /\ todos' = StorageDelete(todos, todo_id)
          /\ last' = [op |-> "delete", err |-> "ok", touched |-> {todo_id}]
    /\ UNCHANGED <<next_id, assigned>>
    /\ UNCHANGED notStorage

NextStorage ==
    \/ StorageCreateOp
    \/ StorageUpdateOp
    \/ StorageDeleteOp

\* C33: within one storage the ids create hands out are 1, 2, 3, ... in
\* creation order: each is greater than every id handed out before, no id
\* is handed out twice (so none that delete freed), it is not the id of a
\* stored todo, and update and delete hand out none.
C33_IdsIncreaseInCreationOrder ==
    [][/\ \A k \in 1..Len(assigned') : assigned'[k] = k
       /\ Len(assigned') > Len(assigned) =>
             LET id == assigned'[Len(assigned')]
             IN /\ Len(assigned') = Len(assigned) + 1
                /\ \A k \in 1..Len(assigned) : assigned[k] < id
                /\ id \notin DOMAIN todos
                /\ id \in DOMAIN todos'
                /\ \A j \in DOMAIN todos : todos'[j] = todos[j]
       /\ last'.op \in {"update", "delete"} => assigned' = assigned
    ]_vars

\* C33's case: the third create came after a delete of todo 2 and handed out 3
C33_Witness ==
    /\ last.op = "create"
    /\ assigned = <<1, 2, 3>>
    /\ DOMAIN todos = {1, 3}

(***************************************************************************)
(* The web fetch tool (common_tools/web_fetch.py) and the requests its     *)
(* httpx client sends                                                      *)
(***************************************************************************)
\* redirects the client follows before it raises TooManyRedirects
MaxRedirects == 2

\* What a web fetch leaves alone
notFetch == <<todoVars, sharedVars, permVars, hookVars, combinedVars, compactVars,
    lifeVars, stepVars, specVars, logVars, envVars>>

_BLOCKED_HOSTNAMES == {"localhost", "metadata.google.internal"}

\* Addresses with what the ipaddress module says of them
PublicAddress == "93.184.216.34"
IsPrivate == {"10.0.0.1", "127.0.0.1", "169.254.169.254", "240.0.0.1"}
IsReserved == {"240.0.0.1"}
IsLoopback == {"127.0.0.1"}
IsLinkLocal == {"169.254.169.254"}
Addresses == {PublicAddress} \cup IsPrivate

\* Host names: what urlparse(url).hostname gives, lower-cased; "" for a URL
\* without one
Names == {"example.com", "intra.example.com"} \cup _BLOCKED_HOSTNAMES
Hostnames == Names \cup Addresses \cup {""}
Schemes == {"http", "https", "ftp", "file"}
Url(scheme, hostname) == [scheme |-> scheme, hostname |-> hostname]
Urls == [scheme : Schemes, hostname : Hostnames]

\* _is_private_ip(host): False for a string that is no IP address
is_private_ip(host) ==
    /\ host \in Addresses
    /\ host \in IsPrivate \cup IsReserved \cup IsLoopback \cup IsLinkLocal

\* _validate_url(url): an error message, or None
validate_url(url) ==
    IF url.scheme \notin {"http", "https"} THEN "URL scheme is not allowed"
    ELSE IF url.hostname = "" THEN "URL has no hostname"
    ELSE IF url.hostname \in _BLOCKED_HOSTNAMES THEN "Fetching hostname is not allowed"
    ELSE IF is_private_ip(url.hostname) THEN "Fetching private/internal IP address is not allowed"
    ELSE NoneStr

\* socket.getaddrinfo(hostname): the addresses the name service gives, an
\* address itself for an address, <<>> for gaierror
getaddrinfo(dns, hostname) ==
    IF hostname \in Addresses THEN <<hostname>>
    ELSE IF hostname \in DOMAIN dns THEN dns[hostname]
    ELSE <<>>

\* _resolve_and_validate_host(hostname): an error message when any address
\* of the name is private, None otherwise and on gaierror
resolve_and_validate_host(dns, hostname) ==
    LET results == getaddrinfo(dns, hostname)
    IN IF \E k \in 1..Len(results) : is_private_ip(results[k])
       THEN "Hostname resolves to private/internal IP address and is not allowed"
       ELSE NoneStr

\* The checks of WebFetchTool.__call__ before the request: an error message
\* or None
FetchChecks(allow_private_urls, dns, url) ==
    IF allow_private_urls THEN NoneStr
    ELSE IF validate_url(url) # NoneStr THEN validate_url(url)
    ELSE IF url.hostname # "" /\ ~is_private_ip(url.hostname)
         THEN resolve_and_validate_host(dns, url.hostname)
         ELSE NoneStr

NoResult == [error |-> NoneStr, url |-> Url("", ""), status_code |-> None]
ErrorResult(error) == [error |-> error, url |-> Url("", ""), status_code |-> None]
WebFetchResult(url, status_code) == [error |-> NoneStr, url |-> url, status_code |-> status_code]

IdleFetch ==
    /\ fetch = [allow_private_urls |-> FALSE, head_only |-> FALSE,
                url |-> Url("http", "example.com"),
                dns |-> [h \in Names |-> <<>>],
                pc |-> "returned", current |-> Url("http", "example.com"),
                redirects |-> 0, result |-> NoResult]
    /\ wire = <<>>

\* What the name service answers for the names of the model: public,
\* private, both or no address for example.com, fixed answers for the rest
NameServices ==
    {[h \in Names |->
         CASE h = "example.com" -> a
           [] h = "intra.example.com" -> <<"10.0.0.1">>
           [] h = "localhost" -> <<"127.0.0.1">>
           [] h = "metadata.google.internal" -> <<"169.254.169.254">>] :
        a \in {<<PublicAddress>>, <<"169.254.169.254">>, <<PublicAddress, "10.0.0.1">>, <<>>}}

\* web_fetch_tool(allow_private_urls=...) and one call of the tool
InitFetch ==
    /\ fetch \in [allow_private_urls : BOOLEAN, head_only : BOOLEAN, url : Urls,
                  dns : NameServices, pc : {"call"}, current : {Url("", "")},
                  redirects : {0}, result : {NoResult}]
    /\ wire = <<>>

\* WebFetchTool.__call__ up to client.head / client.get: the checks, and the
\* error result when one of them fails
WebFetchCall ==
    /\ fetch.pc = "call"
    /\ LET error == FetchChecks(fetch.allow_private_urls, fetch.dns, fetch.url)
       IN fetch' = IF error # NoneStr
                   THEN [fetch EXCEPT !.pc = "returned", !.result = ErrorResult(error)]
                   ELSE [fetch EXCEPT !.pc = "request", !.current = fetch.url]
    /\ UNCHANGED wire
    /\ UNCHANGED notFetch

\* The client sends the request for the current URL to one of the addresses
\* of its host; it raises UnsupportedProtocol for a scheme that is not http
\* or https and ConnectError for a host without an address, and __call__
\* returns the HTTPError as an error result
ClientSend ==
    /\ fetch.pc = "request"
    /\ LET url == fetch.current
           addresses == getaddrinfo(fetch.dns, url.hostname)
       IN IF url.scheme \notin {"http", "https"} \/ url.hostname = ""
          THEN /\ fetch' = [fetch EXCEPT !.pc = "returned",
                                         !.result = ErrorResult("UnsupportedProtocol")]
               /\ UNCHANGED wire
          ELSE IF addresses = <<>>
          THEN /\ fetch' = [fetch EXCEPT !.pc = "returned",
                                         !.result = ErrorResult("ConnectError")]
               /\ UNCHANGED wire
          ELSE \E k \in 1..Len(addresses) :
                  /\ wire' = Append(wire,
                                [method |-> IF fetch.head_only THEN "HEAD" ELSE "GET",
                                 scheme |-> url.scheme, hostname |-> url.hostname,
                                 address |-> addresses[k]])
                  /\ fetch' = [fetch EXCEPT !.pc = "response"]
    /\ UNCHANGED notFetch

\* Where a server may send the client on
Locations ==
    {Url("http", "169.254.169.254"), Url("http", "localhost"), Url("http", "intra.example.com"),
     Url("https", "example.com"), Url("http", PublicAddress), Url("ftp", "example.com")}

\* The server answers with the page, and __call__ returns it with the final
\* URL
ServerAnswers ==
    /\ fetch.pc = "response"
    /\ fetch' = [fetch EXCEPT !.pc = "returned",
                              !.result = WebFetchResult(fetch.current, 200)]
    /\ UNCHANGED wire
    /\ UNCHANGED notFetch

\* The server answers with a redirect; follow_redirects=True makes the client
\* request the Location, up to its limit
ServerRedirects ==
    /\ fetch.pc = "response"
    /\ \E location \in Locations :
          fetch' = IF fetch.redirects >= MaxRedirects
                   THEN [fetch EXCEPT !.pc = "returned",
                                      !.result = ErrorResult("TooManyRedirects")]
                   ELSE [fetch EXCEPT !.pc = "request", !.current = location,
                                      !.redirects = @ + 1]
    /\ UNCHANGED wire
    /\ UNCHANGED notFetch

NextFetch ==
    \/ WebFetchCall
    \/ ClientSend
    \/ ServerAnswers
    \/ ServerRedirects

\* A request the protection is there to prevent: to a private, loopback,
\* link-local or reserved address, to a blocked hostname, or for a scheme
\* other than http and https
Forbidden(sent) ==
    \/ is_private_ip(sent.address)
    \/ sent.hostname \in _BLOCKED_HOSTNAMES
    \/ sent.scheme \notin {"http", "https"}

\* C34: with allow_private_urls false the tool's client sends no request to
\* a private, loopback, link-local or reserved address or to a blocked
\* hostname and none for a scheme other than http and https, on the first
\* request and on every redirect hop.
C34_NoRequestToPrivateTargets ==
    ~fetch.allow_private_urls => \A k \in 1..Len(wire) : ~Forbidden(wire[k])

\* The first request of a protected fetch goes to no forbidden target, and a
\* fetch whose URL or host fails a check returns an error and sends nothing
FirstRequestProtected ==
    ~fetch.allow_private_urls =>
        /\ Len(wire) >= 1 => ~Forbidden(wire[1])
        /\ FetchChecks(FALSE, fetch.dns, fetch.url) # NoneStr /\ fetch.pc = "returned" =>
              (wire = <<>> /\ fetch.result.error # NoneStr)

\* No request is sent for a scheme other than http and https
OnlyHttpRequests ==
    \A k \in 1..Len(wire) : wire[k].scheme \in {"http", "https"}

(***************************************************************************)
(* Specifications: one subsystem runs, the others stay idle                *)
(***************************************************************************)
InitSpecTodo == InitTodo /\ IdleShared /\ IdlePerm /\ IdleHooks /\ IdleCombined /\ IdleCompact /\ IdleLife
    /\ IdleSteps /\ IdleSpec /\ IdleLog /\ IdleFetch /\ IdleEnv

SpecTodo == InitSpecTodo /\ [][NextTodo]_vars

SpecTodoFields == InitSpecTodo /\ [][NextTodoFields]_vars

InitSpecTodoShared == InitShared /\ last = NoCall /\ IdlePerm /\ IdleHooks /\ IdleCombined /\ IdleCompact /\ IdleLife
    /\ IdleSteps /\ IdleSpec /\ IdleLog /\ IdleFetch /\ IdleEnv

SpecTodoShared == InitSpecTodoShared /\ [][NextTodoShared]_vars

InitSpecTodoRace ==
    InitRace /\ last = NoCall /\ IdlePerm /\ IdleHooks /\ IdleCombined /\ IdleCompact /\ IdleLife
    /\ IdleSteps /\ IdleSpec /\ IdleLog /\ IdleFetch /\ IdleEnv

SpecTodoRace == InitSpecTodoRace /\ [][NextTodoRace]_vars

InitSpecRuns ==
    InitLife /\ IdleTodo /\ IdleShared /\ IdlePerm /\ IdleHooks /\ IdleCombined /\ IdleCompact
    /\ IdleSteps /\ IdleSpec /\ IdleLog /\ IdleFetch /\ IdleEnv

SpecRuns == InitSpecRuns /\ [][NextRuns]_vars

SpecScopes == InitSpecRuns /\ [][NextScopes]_vars

InitSpecSteps ==
    InitSteps /\ IdleTodo /\ IdleShared /\ IdlePerm /\ IdleCombined /\ IdleCompact /\ IdleLife
    /\ IdleSpec /\ IdleLog /\ IdleFetch /\ IdleEnv

SpecSteps == InitSpecSteps /\ [][NextSteps]_vars

InitSpecTrigger ==
    InitTrigger /\ IdleTodo /\ IdleShared /\ IdlePerm /\ IdleHooks /\ IdleCombined /\ IdleLife
    /\ IdleSteps /\ IdleSpec /\ IdleLog /\ IdleFetch /\ IdleEnv

SpecTrigger == InitSpecTrigger /\ [][NextTrigger]_vars

InitSpecPerm == InitPerm /\ IdleTodo /\ IdleShared /\ IdleHooks /\ IdleCombined /\ IdleCompact /\ IdleLife
    /\ IdleSteps /\ IdleSpec /\ IdleLog /\ IdleFetch /\ IdleEnv

SpecPerm == InitSpecPerm /\ [][NextPerm]_vars

InitSpecGlob ==
    InitGlob /\ IdleTodo /\ IdleShared /\ IdleHooks /\ IdleCombined /\ IdleCompact /\ IdleLife
    /\ IdleSteps /\ IdleSpec /\ IdleLog /\ IdleFetch /\ IdleEnv

SpecGlob == InitSpecGlob /\ [][NextGlob]_vars

InitSpecHooks == InitHooks /\ IdleTodo /\ IdleShared /\ IdlePerm /\ IdleCombined /\ IdleCompact /\ IdleLife
    /\ IdleSteps /\ IdleSpec /\ IdleLog /\ IdleFetch /\ IdleEnv

SpecHooks == InitSpecHooks /\ [][NextHooks]_vars

InitSpecCombined == InitCombined /\ IdleTodo /\ IdleShared /\ IdlePerm /\ IdleHooks /\ IdleCompact /\ IdleLife
    /\ IdleSteps /\ IdleSpec /\ IdleLog /\ IdleFetch /\ IdleEnv

SpecCombined == InitSpecCombined /\ [][NextCombined]_vars

InitSpecQueries ==
    InitQueries /\ IdleTodo /\ IdleShared /\ IdlePerm /\ IdleHooks /\ IdleCompact /\ IdleLife
    /\ IdleSteps /\ IdleSpec /\ IdleLog /\ IdleFetch /\ IdleEnv

SpecQueries == InitSpecQueries /\ [][NextQueries]_vars

InitSpecCompact ==
    InitCompact /\ IdleTodo /\ IdleShared /\ IdlePerm /\ IdleHooks /\ IdleCombined /\ IdleLife
    /\ IdleSteps /\ IdleSpec /\ IdleLog /\ IdleFetch /\ IdleEnv

SpecCompact == InitSpecCompact /\ [][NextCompact]_vars

InitSpecMasking ==
    InitMasking /\ IdleTodo /\ IdleShared /\ IdlePerm /\ IdleHooks /\ IdleCombined /\ IdleLife
    /\ IdleSteps /\ IdleSpec /\ IdleLog /\ IdleFetch /\ IdleEnv

SpecMasking == InitSpecMasking /\ [][NextMasking]_vars

InitSpecHistory ==
    InitHistory /\ IdleTodo /\ IdleShared /\ IdlePerm /\ IdleHooks /\ IdleCombined /\ IdleLife
    /\ IdleSteps /\ IdleSpec /\ IdleLog /\ IdleFetch /\ IdleEnv

SpecHistory == InitSpecHistory /\ [][NextHistory]_vars

InitSpecNamedSpec ==
    InitNamedSpec /\ IdleTodo /\ IdleShared /\ IdlePerm /\ IdleHooks /\ IdleCombined /\ IdleCompact
    /\ IdleLife /\ IdleSteps /\ IdleLog /\ IdleFetch /\ IdleEnv

SpecNamedSpec == InitSpecNamedSpec /\ [][NextNamedSpec]_vars

InitSpecRegistry ==
    InitRegistry /\ IdleTodo /\ IdleShared /\ IdlePerm /\ IdleHooks /\ IdleCombined /\ IdleCompact
    /\ IdleLife /\ IdleSteps /\ IdleLog /\ IdleFetch /\ IdleEnv

SpecRegistry == InitSpecRegistry /\ [][NextRegistry]_vars

InitSpecLoad ==
    InitLoad /\ IdleTodo /\ IdleShared /\ IdlePerm /\ IdleHooks /\ IdleCombined /\ IdleCompact
    /\ IdleLife /\ IdleSteps /\ IdleLog /\ IdleFetch /\ IdleEnv

SpecLoad == InitSpecLoad /\ [][NextLoad]_vars

InitSpecTodoCalls ==
    InitTodoCalls /\ IdleShared /\ IdlePerm /\ IdleHooks /\ IdleCombined /\ IdleCompact
    /\ IdleLife /\ IdleSteps /\ IdleSpec /\ IdleFetch /\ IdleEnv

SpecTodoCalls == InitSpecTodoCalls /\ [][NextTodoCalls]_vars

InitSpecTodoList ==
    InitTodoCalls /\ IdleShared /\ IdlePerm /\ IdleHooks /\ IdleCombined /\ IdleCompact
    /\ IdleLife /\ IdleSteps /\ IdleSpec /\ IdleFetch /\ IdleEnv

SpecTodoList == InitSpecTodoList /\ [][NextTodoList]_vars

InitSpecStorage ==
    InitTodoCalls /\ IdleShared /\ IdlePerm /\ IdleHooks /\ IdleCombined /\ IdleCompact
    /\ IdleLife /\ IdleSteps /\ IdleSpec /\ IdleFetch /\ IdleEnv

SpecStorage == InitSpecStorage /\ [][NextStorage]_vars

InitSpecFetch ==
    InitFetch /\ IdleTodo /\ IdleShared /\ IdlePerm /\ IdleHooks /\ IdleCombined /\ IdleCompact
    /\ IdleLife /\ IdleSteps /\ IdleSpec /\ IdleLog /\ IdleEnv

SpecFetch == InitSpecFetch /\ [][NextFetch]_vars

InitSpecLastTokens ==
    InitLastTokens /\ IdleTodo /\ IdleShared /\ IdlePerm /\ IdleHooks /\ IdleCombined
    /\ IdleLife /\ IdleSteps /\ IdleSpec /\ IdleLog /\ IdleFetch /\ IdleEnv

SpecLastTokens == InitSpecLastTokens /\ [][NextLastTokens]_vars

InitSpecRunUsage ==
    InitRunUsage /\ IdleTodo /\ IdleShared /\ IdlePerm /\ IdleHooks /\ IdleCombined
    /\ IdleLife /\ IdleSteps /\ IdleSpec /\ IdleLog /\ IdleFetch /\ IdleEnv

SpecRunUsage == InitSpecRunUsage /\ [][NextRunUsage]_vars

InitSpecRoundTrip ==
    InitRoundTrip /\ IdleTodo /\ IdleShared /\ IdlePerm /\ IdleHooks /\ IdleCombined /\ IdleCompact
    /\ IdleLife /\ IdleSteps /\ IdleLog /\ IdleFetch /\ IdleEnv

SpecRoundTrip == InitSpecRoundTrip /\ [][NextRoundTrip]_vars

InitSpecNested ==
    InitNested /\ IdleTodo /\ IdleShared /\ IdlePerm /\ IdleHooks /\ IdleCompact
    /\ IdleLife /\ IdleSteps /\ IdleSpec /\ IdleLog /\ IdleFetch /\ IdleEnv

SpecNested == InitSpecNested /\ [][NextNested]_vars

InitSpecEnv ==
    InitEnv /\ IdleTodo /\ IdleShared /\ IdlePerm /\ IdleHooks /\ IdleCombined /\ IdleCompact
    /\ IdleLife /\ IdleSteps /\ IdleSpec /\ IdleLog /\ IdleFetch

SpecEnv == InitSpecEnv /\ [][NextEnv]_vars

====
